---- MODULE Spec2Model ----
(***************************************************************************)
(* A model of sigs.k8s.io/yaml (yaml.go): the YAML -> JSON value           *)
(* reconciliation (convertToJSONableObject), the permissive and strict     *)
(* entry points, and the two-goroutine pipe bridge of Encoder.Encode and   *)
(* Decoder.Decode.                                                         *)
(*                                                                         *)
(* Text is a sequence of one-character strings, so that formatting,        *)
(* comparison and case folding are computed and not assumed.               *)
(***************************************************************************)
EXTENDS Integers, Sequences, FiniteSets, TLC

(***************************************************************************)
(* Bounds of the model.                                                    *)
(***************************************************************************)
\* width in bits of the native int (a scale model of 32 or 64)
IntBits == 5
\* width in bits of int64 and uint64 (a scale model of 64)
Int64Bits == 6
\* the room a reader makes in its buffer before each Read of the pipe
\* (a scale model of minRead = 512 in encoding/json and of the 512-byte
\* raw buffer of the YAML reader)
minRead == 3
\* precision in bits of a float64 (a scale model of 53)
MantBits == 4
\* precision in bits of a float32 (a scale model of 24)
MantBits32 == 3

(***************************************************************************)
(* Characters and text.                                                    *)
(***************************************************************************)
\* the characters of the model in ASCII order; "DEL" stands for the one
\* character U+007F
Alphabet ==
    << "\n", " ", "\"", "'", "+", ",", "-", ".",
       "0", "1", "2", "3", "4", "5", "6", "7", "8", "9", ":",
       "A", "B", "C", "F", "I", "N", "T", "[", "\\", "]",
       "a", "b", "c", "d", "e", "f", "i", "l", "m", "n", "r", "s", "t", "u", "x",
       "{", "}", "DEL" >>

Rank(c) == CHOOSE i \in 1..Len(Alphabet) : Alphabet[i] = c

DigitChars == << "0", "1", "2", "3", "4", "5", "6", "7", "8", "9" >>

IsDigit(c) == \E i \in 1..10 : DigitChars[i] = c

DigitVal(c) == (CHOOSE i \in 1..10 : DigitChars[i] = c) - 1

UpperLetters == << "A", "B", "C", "F", "I", "N", "T" >>

LowerLetters == << "a", "b", "c", "f", "i", "n", "t" >>

\* ASCII lower-casing of one character
Lower(c) ==
    IF \E i \in 1..Len(UpperLetters) : UpperLetters[i] = c
    THEN LowerLetters[CHOOSE i \in 1..Len(UpperLetters) : UpperLetters[i] = c]
    ELSE c

RECURSIVE Pow(_, _)
Pow(b, n) == IF n = 0 THEN 1 ELSE b * Pow(b, n - 1)

\* lexicographic byte order on text (the order sort.Strings uses)
RECURSIVE StrLess(_, _)
StrLess(a, b) ==
    IF Len(b) = 0 THEN FALSE
    ELSE IF Len(a) = 0 THEN TRUE
    ELSE IF a[1] = b[1] THEN StrLess(Tail(a), Tail(b))
    ELSE Rank(a[1]) < Rank(b[1])

\* the elements of a finite set of texts in increasing order
RECURSIVE SortedStrs(_)
SortedStrs(S) ==
    IF S = {} THEN << >>
    ELSE LET m == CHOOSE x \in S : \A y \in S \ {x} : StrLess(x, y)
         IN  << m >> \o SortedStrs(S \ {m})

(***************************************************************************)
(* strconv: integers to decimal text.                                      *)
(***************************************************************************)
RECURSIVE FormatUint(_)
FormatUint(n) ==
    IF n < 10 THEN << DigitChars[n + 1] >>
    ELSE FormatUint(n \div 10) \o << DigitChars[(n % 10) + 1] >>

FormatInt(n) == IF n < 0 THEN << "-" >> \o FormatUint(-n) ELSE FormatUint(n)

\* the value a canonical decimal text denotes
RECURSIVE ParseUint(_)
ParseUint(s) ==
    IF Len(s) = 1 THEN DigitVal(s[1])
    ELSE 10 * ParseUint(SubSeq(s, 1, Len(s) - 1)) + DigitVal(s[Len(s)])

(***************************************************************************)
(* strconv.FormatFloat(f, 'g', -1, bitSize).  A finite float is held as    *)
(* its shortest decimal digits dig and a decimal exponent exp (value =     *)
(* dig * 10^exp, dig without trailing zeros).  The floats of the model     *)
(* have at most six significant digits and lie in the float32 range, where *)
(* the shortest digits for bitSize 32 and 64 are the same digits, but for  *)
(* the whole numbers below 1000: those are rounded to MantBits32 bits for  *)
(* bitSize 32, as whole numbers are to MantBits bits in a float64.         *)
(***************************************************************************)
RECURSIVE stripZeros(_, _)
\* dig * 10^exp with the trailing zeros of dig moved into exp
stripZeros(dig, exp) ==
    IF dig = 0 THEN [dig |-> 0, exp |-> 0]
    ELSE IF dig % 10 = 0 THEN stripZeros(dig \div 10, exp + 1)
    ELSE [dig |-> dig, exp |-> exp]

RECURSIVE bitLen(_)
bitLen(a) == IF a = 0 THEN 0 ELSE 1 + bitLen(a \div 2)

\* the float32 nearest to the natural number a, ties to even
roundToFloat32(a) ==
    IF bitLen(a) <= MantBits32 THEN a
    ELSE LET ulp == Pow(2, bitLen(a) - MantBits32)
             q == a \div ulp
             r == a % ulp
         IN  IF 2 * r > ulp \/ (2 * r = ulp /\ q % 2 = 1) THEN (q + 1) * ulp ELSE q * ulp

\* the number of significant digits of the natural number n
sigDigits(n) == Len(FormatUint(stripZeros(n, 0).dig))

\* the shortest decimal that float32 reads back as r: of the numbers that
\* round to r, the one nearest to r among those with the fewest digits
shortest32(r) ==
    LET same == {n \in 1..(2 * r) : roundToFloat32(n) = r}
        few == {n \in same : \A o \in same : sigDigits(n) <= sigDigits(o)}
        dist(n) == IF n < r THEN r - n ELSE n - r
    IN  IF r = 0 THEN 0
        ELSE CHOOSE n \in few : \A o \in few : dist(n) < dist(o) \/ (dist(n) = dist(o) /\ n <= o)

\* the digits FormatFloat writes for the finite f: for bitSize 32, those of
\* float32(f)
shortestDigits(f, bitSize) ==
    IF bitSize = 32 /\ f.exp >= 0 /\ sigDigits(f.dig) + f.exp <= 3
    THEN stripZeros(shortest32(roundToFloat32(f.dig * Pow(10, f.exp))), 0)
    ELSE [dig |-> f.dig, exp |-> f.exp]

Repeat(c, n) == [i \in 1..n |-> c]

\* %e with the shortest digits ds and decimal point position dp
FmtE(neg, ds, dp) ==
    LET nd == Len(ds)
        e == IF nd = 0 THEN 0 ELSE dp - 1
        ae == IF e < 0 THEN -e ELSE e
    IN  (IF neg THEN << "-" >> ELSE << >>)
        \o (IF nd = 0 THEN << "0" >> ELSE << ds[1] >>)
        \o (IF nd > 1 THEN << "." >> \o SubSeq(ds, 2, nd) ELSE << >>)
        \o << "e" >>
        \o (IF e < 0 THEN << "-" >> ELSE << "+" >>)
        \o (IF ae < 10 THEN << "0" >> ELSE << >>)
        \o FormatUint(ae)

\* %f with the shortest digits ds and decimal point position dp
FmtF(neg, ds, dp) ==
    LET nd == Len(ds)
        prec == IF nd - dp > 0 THEN nd - dp ELSE 0
        m == IF nd < dp THEN nd ELSE dp
    IN  (IF neg THEN << "-" >> ELSE << >>)
        \o (IF dp > 0
            THEN SubSeq(ds, 1, m) \o Repeat("0", dp - m)
            ELSE << "0" >>)
        \o (IF prec > 0
            THEN << "." >> \o [i \in 1..prec |->
                     IF dp + i >= 1 /\ dp + i <= nd THEN ds[dp + i] ELSE "0"]
            ELSE << >>)

FormatFloat(f, bitSize) ==
    IF f.cls = "nan" THEN << "N", "a", "N" >>
    ELSE IF f.cls = "inf"
    THEN (IF f.neg THEN << "-" >> ELSE << "+" >>) \o << "I", "n", "f" >>
    ELSE LET fmt(ds, dp) ==
                 IF dp - 1 < -4 \/ dp - 1 >= 6 THEN FmtE(f.neg, ds, dp) ELSE FmtF(f.neg, ds, dp)
             digits(d) ==
                 IF d.dig = 0 THEN fmt(<< >>, d.exp)
                 ELSE fmt(FormatUint(d.dig), Len(FormatUint(d.dig)) + d.exp)
         IN  digits(shortestDigits(f, bitSize))

(***************************************************************************)
(* Values.  A scalar is a record whose kind names its Go dynamic type.     *)
(***************************************************************************)
Null == [kind |-> "null"]

VBool(b) == [kind |-> "bool", b |-> b]

VStr(s) == [kind |-> "string", s |-> s]

VInt(n) == [kind |-> "int", i |-> n]

VInt64(n) == [kind |-> "int64", i |-> n]

VUint64(n) == [kind |-> "uint64", i |-> n]

VFloat(neg, dig, exp) ==
    [kind |-> "float64", cls |-> "fin", neg |-> neg, dig |-> dig, exp |-> exp]

PosInf == [kind |-> "float64", cls |-> "inf", neg |-> FALSE, dig |-> 0, exp |-> 0]

NegInf == [kind |-> "float64", cls |-> "inf", neg |-> TRUE, dig |-> 0, exp |-> 0]

NaN == [kind |-> "float64", cls |-> "nan", neg |-> FALSE, dig |-> 0, exp |-> 0]

\* a YAML sequence, and a JSON array: []interface{}
VSeq(items) == [kind |-> "seq", items |-> items]

\* a decoded YAML mapping: map[interface{}]interface{}
VMap(m) == [kind |-> "map", m |-> m]

\* a JSON object: map[string]interface{}
VObj(m) == [kind |-> "object", m |-> m]

\* a plain integer literal of a document, before the parser has typed it
Plain(n) == [kind |-> "plainint", n |-> n]

\* a mapping of a document: its entries << key, value >> in document order
Mapping(entries) == [kind |-> "mapping", entries |-> entries]

MaxInt == Pow(2, IntBits - 1) - 1

MinInt == -Pow(2, IntBits - 1)

MaxInt64 == Pow(2, Int64Bits - 1) - 1

MinInt64 == -Pow(2, Int64Bits - 1)

MaxUint64 == Pow(2, Int64Bits) - 1

EmptyMap == [x \in {} |-> Null]

\* m with key k set to v
MapSet(m, k, v) == [x \in (DOMAIN m) \cup {k} |-> IF x = k THEN v ELSE m[x]]

(***************************************************************************)
(* The YAML parser (gopkg.in/yaml.v2, Decoder.Decode into interface{}).    *)
(***************************************************************************)
\* resolve: the Go type the parser gives an integer literal
resolveInt(n) ==
    IF n >= MinInt64 /\ n <= MaxInt64
    THEN (IF n >= MinInt /\ n <= MaxInt THEN VInt(n) ELSE VInt64(n))
    ELSE VUint64(n)

RECURSIVE yamlDecode(_, _)
RECURSIVE yamlDecodeEntries(_, _, _, _)
\* the entries from the i-th on, added to the map acc in document order;
\* in strict mode a key that is already set is an error
yamlDecodeEntries(entries, i, acc, strict) ==
    IF i > Len(entries) THEN [err |-> FALSE, v |-> VMap(acc)]
    ELSE LET k == yamlDecode(entries[i][1], strict)
             e == yamlDecode(entries[i][2], strict)
         IN  IF k.err \/ e.err THEN [err |-> TRUE, v |-> Null]
             ELSE IF strict /\ k.v \in DOMAIN acc THEN [err |-> TRUE, v |-> Null]
             ELSE yamlDecodeEntries(entries, i + 1, MapSet(acc, k.v, e.v), strict)

RECURSIVE yamlDecodeItems(_, _, _, _)
yamlDecodeItems(items, i, acc, strict) ==
    IF i > Len(items) THEN [err |-> FALSE, v |-> VSeq(acc)]
    ELSE LET e == yamlDecode(items[i], strict)
         IN  IF e.err THEN e
             ELSE yamlDecodeItems(items, i + 1, Append(acc, e.v), strict)

\* dec.Decode(&yamlObj): the value tree of a document, or an error
yamlDecode(doc, strict) ==
    CASE doc.kind = "plainint" -> [err |-> FALSE, v |-> resolveInt(doc.n)]
      [] doc.kind = "mapping" -> yamlDecodeEntries(doc.entries, 1, EmptyMap, strict)
      [] doc.kind = "seq" -> yamlDecodeItems(doc.items, 1, << >>, strict)
      [] OTHER -> [err |-> FALSE, v |-> doc]

(***************************************************************************)
(* Destination types (reflect.Type) and the field table of fields.go.      *)
(***************************************************************************)
\* jsonTarget == nil
NoTarget == [kind |-> "none"]

TString == [kind |-> "string"]

TInt64 == [kind |-> "int64"]

TBool == [kind |-> "bool"]

TFloat32 == [kind |-> "float32"]

TFloat64 == [kind |-> "float64"]

TInterface == [kind |-> "interface"]

TPtr(t) == [kind |-> "ptr", elem |-> t]

TSlice(t) == [kind |-> "slice", elem |-> t]

TArray(t, n) == [kind |-> "array", elem |-> t, len |-> n]

\* map[string]t
TMap(t) == [kind |-> "map", elem |-> t]

\* one declared field of a struct: its Go name, its json tag name (empty
\* when untagged), its type, and whether it is embedded
GoField(goName, tag, typ, embedded) ==
    [goName |-> goName, tag |-> tag, typ |-> typ, embedded |-> embedded]

TStruct(fields) == [kind |-> "struct", fields |-> fields]

\* indirect(v, false): follow pointers down to the value decoded into
RECURSIVE indirect(_)
indirect(t) == IF t.kind = "ptr" THEN indirect(t.elem) ELSE t

\* the fields encoding/json sees in a struct: the declared fields by their
\* external name with index path << i >>, and the fields promoted from
\* embedded structs with the longer path
RECURSIVE typeFieldsAt(_, _)
typeFieldsAt(t, prefix) ==
    LET one(i) ==
            LET gf == t.fields[i]
                ft == indirect(gf.typ)
            IN  IF gf.embedded /\ Len(gf.tag) = 0 /\ ft.kind = "struct"
                THEN typeFieldsAt(ft, Append(prefix, i))
                ELSE << [name |-> IF Len(gf.tag) > 0 THEN gf.tag ELSE gf.goName,
                         tagged |-> Len(gf.tag) > 0,
                         index |-> Append(prefix, i),
                         typ |-> gf.typ] >>
        RECURSIVE all(_)
        all(i) == IF i > Len(t.fields) THEN << >> ELSE one(i) \o all(i + 1)
    IN  all(1)

\* cachedTypeFields(t): of the fields of one name the shallowest wins, and a
\* tie at the shallowest depth hides the name
cachedTypeFields(t) ==
    LET fs == typeFieldsAt(t, << >>)
        dominant(i) ==
            \A j \in 1..Len(fs) :
                (j # i /\ fs[j].name = fs[i].name) => Len(fs[j].index) > Len(fs[i].index)
        RECURSIVE pick(_)
        pick(i) ==
            IF i > Len(fs) THEN << >>
            ELSE (IF dominant(i) THEN << fs[i] >> ELSE << >>) \o pick(i + 1)
    IN  pick(1)

\* field.equalFold: ASCII case-insensitive equality of two names
equalFold(a, b) ==
    /\ Len(a) = Len(b)
    /\ \A i \in 1..Len(a) : Lower(a[i]) = Lower(b[i])

(***************************************************************************)
(* convertToJSONableObject.  Go ranges over a map in an unspecified order, *)
(* so the conversion of a value is the set of outcomes over every order    *)
(* in which the entries of its mappings can be visited.  An outcome is a   *)
(* converted value, or the error naming the key and value it stopped at.   *)
(***************************************************************************)
Converted(v) == [err |-> FALSE, v |-> v]

UnsupportedKey(k, v) == [err |-> TRUE, key |-> k, val |-> v]

\* keyString with a null key taken for the text "null"
keyString_nullAsText(k) ==
    CASE k.kind = "string" -> [ok |-> TRUE, s |-> k.s]
      [] k.kind \in {"int", "int64"} -> [ok |-> TRUE, s |-> FormatInt(k.i)]
      [] k.kind = "bool" ->
            [ok |-> TRUE,
             s |-> IF k.b THEN << "t", "r", "u", "e" >> ELSE << "f", "a", "l", "s", "e" >>]
      [] k.kind = "null" -> [ok |-> TRUE, s |-> << "n", "u", "l", "l" >>]
      [] OTHER -> [ok |-> FALSE, s |-> << >>]

\* the switch on the key's type: the string a raw key becomes
keyString(k) ==
    CASE k.kind = "string" -> [ok |-> TRUE, s |-> k.s]
      [] k.kind = "int" -> [ok |-> TRUE, s |-> FormatInt(k.i)]
      [] k.kind = "int64" -> [ok |-> TRUE, s |-> FormatInt(k.i)]
      [] k.kind = "float64" ->
            LET s == FormatFloat(k, 32)
            IN  [ok |-> TRUE,
                 s |-> CASE s = << "+", "I", "n", "f" >> -> << ".", "i", "n", "f" >>
                         [] s = << "-", "I", "n", "f" >> -> << "-", ".", "i", "n", "f" >>
                         [] s = << "N", "a", "N" >> -> << ".", "n", "a", "n" >>
                         [] OTHER -> s]
      [] k.kind = "bool" ->
            [ok |-> TRUE,
             s |-> IF k.b THEN << "t", "r", "u", "e" >> ELSE << "f", "a", "l", "s", "e" >>]
      [] OTHER -> [ok |-> FALSE, s |-> << >>]

\* findField without the case-insensitive comparison
findField_exactOnly(fields, key) ==
    LET exact == {i \in 1..Len(fields) : fields[i].name = key}
    IN  IF exact # {} THEN CHOOSE i \in exact : \A j \in exact : i <= j ELSE 0

\* the field the JSON library would use for a key: the first field whose
\* name is the key exactly, else the first that equals it under case
\* folding; 0 when there is none
findField(fields, key) ==
    LET exact == {i \in 1..Len(fields) : fields[i].name = key}
        fold == {i \in 1..Len(fields) : equalFold(fields[i].name, key)}
        first(S) == CHOOSE i \in S : \A j \in S : i <= j
    IN  IF exact # {} THEN first(exact)
        ELSE IF fold # {} THEN first(fold)
        ELSE 0

\* the jsonTarget handed to the conversion of the value under a key, for
\* the (resolved) target t of the mapping
entryTarget(t, key) ==
    IF t.kind = "struct"
    THEN LET fields == cachedTypeFields(t)
             f == findField(fields, key)
         IN  IF f # 0 THEN t.fields[fields[f].index[1]].typ ELSE NoTarget
    ELSE IF t.kind = "map" THEN t.elem
    ELSE NoTarget

\* the jsonTarget handed to the conversion of the elements of a sequence
elemTarget(t) == IF t.kind = "slice" THEN t.elem ELSE NoTarget

\* coerceScalar without the uint64 case
coerceScalar_noUint64(y, t) ==
    IF t.kind = "string" /\ y.kind \in {"int", "int64"} THEN VStr(FormatInt(y.i))
    ELSE IF t.kind = "string" /\ y.kind = "bool"
    THEN VStr(IF y.b THEN << "t", "r", "u", "e" >> ELSE << "f", "a", "l", "s", "e" >>)
    ELSE y

\* the default branch: a scalar, coerced to a string when the target is one
coerceScalar(y, t) ==
    IF t.kind = "string"
    THEN LET s == CASE y.kind = "int" -> FormatInt(y.i)
                    [] y.kind = "int64" -> FormatInt(y.i)
                    [] y.kind = "float64" -> FormatFloat(y, 32)
                    [] y.kind = "uint64" -> FormatUint(y.i)
                    [] y.kind = "bool" ->
                          IF y.b THEN << "t", "r", "u", "e" >>
                          ELSE << "f", "a", "l", "s", "e" >>
                    [] OTHER -> << >>
         IN  IF Len(s) > 0 THEN VStr(s) ELSE y
    ELSE y

RECURSIVE convertToJSONableObject(_, _)
RECURSIVE convertEntries(_, _, _, _)
RECURSIVE convertItems(_, _, _, _)

\* the range loop over the map m with the keys todo still to visit and
\* strMap filled so far
convertEntries(m, todo, strMap, t) ==
    IF todo = {} THEN {Converted(VObj(strMap))}
    ELSE UNION {
        LET ks == keyString(k)
        IN  IF ~ks.ok THEN {UnsupportedKey(k, m[k])}
            ELSE UNION {
                IF r.err THEN {r}
                ELSE convertEntries(m, todo \ {k}, MapSet(strMap, ks.s, r.v), t)
                : r \in convertToJSONableObject(m[k], entryTarget(t, ks.s)) }
        : k \in todo }

\* the loop over the elements from the i-th on, with arr filled so far
convertItems(items, i, arr, et) ==
    IF i > Len(items) THEN {Converted(VSeq(arr))}
    ELSE UNION {
        IF r.err THEN {r} ELSE convertItems(items, i + 1, Append(arr, r.v), et)
        : r \in convertToJSONableObject(items[i], et) }

convertToJSONableObject(yamlObj, jsonTarget) ==
    LET t == IF jsonTarget.kind = "none" THEN jsonTarget ELSE indirect(jsonTarget)
    IN  CASE yamlObj.kind = "map" ->
                convertEntries(yamlObj.m, DOMAIN yamlObj.m, EmptyMap, t)
          [] yamlObj.kind = "seq" ->
                convertItems(yamlObj.items, 1, << >>, elemTarget(t))
          [] OTHER -> {Converted(coerceScalar(yamlObj, t))}

(***************************************************************************)
(* encoding/json: the text of a JSON-compatible value (map keys sorted).   *)
(***************************************************************************)
Quote(s) == << "\"" >> \o s \o << "\"" >>

\* floatEncoder: %f, or %e below 1e-6 and from 1e21 on, with e-09 cut to e-9
jsonFloat(f) ==
    LET ds == IF f.dig = 0 THEN << >> ELSE FormatUint(f.dig)
        dp == Len(ds) + f.exp
        e == FmtE(f.neg, ds, dp)
        n == Len(e)
    IN  IF f.dig # 0 /\ (dp < -5 \/ dp >= 22)
        THEN (IF n >= 4 /\ e[n - 3] = "e" /\ e[n - 2] = "-" /\ e[n - 1] = "0"
              THEN SubSeq(e, 1, n - 2) \o << e[n] >>
              ELSE e)
        ELSE FmtF(f.neg, ds, dp)

RECURSIVE jsonMarshal(_)
RECURSIVE jsonMarshalMembers(_, _, _)
RECURSIVE jsonMarshalItems(_, _)
\* the members of the object m for the sorted keys from the i-th on
jsonMarshalMembers(m, keys, i) ==
    IF i > Len(keys) THEN [err |-> FALSE, s |-> << >>]
    ELSE LET v == jsonMarshal(m[keys[i]])
             rest == jsonMarshalMembers(m, keys, i + 1)
         IN  IF v.err THEN v
             ELSE IF rest.err THEN rest
             ELSE [err |-> FALSE,
                   s |-> (IF i > 1 THEN << "," >> ELSE << >>)
                         \o Quote(keys[i]) \o << ":" >> \o v.s \o rest.s]

jsonMarshalItems(items, i) ==
    IF i > Len(items) THEN [err |-> FALSE, s |-> << >>]
    ELSE LET v == jsonMarshal(items[i])
             rest == jsonMarshalItems(items, i + 1)
         IN  IF v.err THEN v
             ELSE IF rest.err THEN rest
             ELSE [err |-> FALSE,
                   s |-> (IF i > 1 THEN << "," >> ELSE << >>) \o v.s \o rest.s]

\* the JSON text of v, or an error for a value JSON cannot hold (Inf, NaN)
jsonMarshal(v) ==
    CASE v.kind = "null" -> [err |-> FALSE, s |-> << "n", "u", "l", "l" >>]
      [] v.kind = "bool" ->
            [err |-> FALSE,
             s |-> IF v.b THEN << "t", "r", "u", "e" >> ELSE << "f", "a", "l", "s", "e" >>]
      [] v.kind \in {"int", "int64"} -> [err |-> FALSE, s |-> FormatInt(v.i)]
      [] v.kind = "uint64" -> [err |-> FALSE, s |-> FormatUint(v.i)]
      [] v.kind = "float64" ->
            IF v.cls = "fin" THEN [err |-> FALSE, s |-> jsonFloat(v)]
            ELSE [err |-> TRUE, s |-> << >>]
      [] v.kind = "string" -> [err |-> FALSE, s |-> Quote(v.s)]
      [] v.kind = "seq" ->
            LET r == jsonMarshalItems(v.items, 1)
            IN  IF r.err THEN r ELSE [err |-> FALSE, s |-> << "[" >> \o r.s \o << "]" >>]
      [] v.kind = "object" ->
            LET r == jsonMarshalMembers(v.m, SortedStrs(DOMAIN v.m), 1)
            IN  IF r.err THEN r ELSE [err |-> FALSE, s |-> << "{" >> \o r.s \o << "}" >>]

\* json.NewEncoder(w).Encode(v): the bytes of the one Write it makes, the
\* text and a newline, or no Write at all when the value cannot be encoded
jsonEncode(v) ==
    LET r == jsonMarshal(v)
    IN  IF r.err THEN r ELSE [err |-> FALSE, s |-> r.s \o << "\n" >>]

(***************************************************************************)
(* encoding/json: the decoder.  Its scanner finds the end of the first     *)
(* value in the bytes read so far; the text of the value is then parsed    *)
(* and stored into the destination.                                        *)
(***************************************************************************)
\* the position of the bracket closing the array or object that opens at
\* buf[1], or 0 when buf does not hold it yet
RECURSIVE closingAt(_, _, _, _)
closingAt(buf, i, depth, inStr) ==
    IF i > Len(buf) THEN 0
    ELSE IF inStr THEN closingAt(buf, i + 1, depth, buf[i] # "\"")
    ELSE IF buf[i] = "\"" THEN closingAt(buf, i + 1, depth, TRUE)
    ELSE IF buf[i] \in {"{", "["} THEN closingAt(buf, i + 1, depth + 1, FALSE)
    ELSE IF buf[i] \in {"}", "]"}
    THEN (IF depth = 1 THEN i ELSE closingAt(buf, i + 1, depth - 1, FALSE))
    ELSE closingAt(buf, i + 1, depth, FALSE)

\* the length of the first value of buf as soon as the scanner knows where
\* it ends, else 0: an array or object ends at its closing bracket, any
\* other value only at the byte that follows it
valueEnd(buf) ==
    IF Len(buf) = 0 THEN 0
    ELSE IF buf[1] \in {"{", "["} THEN closingAt(buf, 1, 0, FALSE)
    ELSE IF \E i \in 1..Len(buf) : buf[i] = "\n"
    THEN (CHOOSE i \in 1..Len(buf) : buf[i] = "\n" /\ \A j \in 1..(i - 1) : buf[j] # "\n") - 1
    ELSE 0

JNull == [kind |-> "jnull"]

JBool(b) == [kind |-> "jbool", b |-> b]

\* a number, still as its literal text
JNumber(lit) == [kind |-> "jnumber", lit |-> lit]

JString(s) == [kind |-> "jstring", s |-> s]

JArray(items) == [kind |-> "jarray", items |-> items]

\* an object: its members << name, value >> in the order of the text
JObject(members) == [kind |-> "jobject", members |-> members]

NumberChars == {"-", "+", ".", "e", "0", "1", "2", "3", "4", "5", "6", "7", "8", "9"}

\* the first position from i on that holds c
RECURSIVE indexFrom(_, _, _)
indexFrom(s, i, c) == IF s[i] = c THEN i ELSE indexFrom(s, i + 1, c)

\* the first position from i on that is past the number literal at i
RECURSIVE numberEnd(_, _)
numberEnd(s, i) ==
    IF i > Len(s) \/ s[i] \notin NumberChars THEN i ELSE numberEnd(s, i + 1)

RECURSIVE jsonParseAt(_, _)
RECURSIVE jsonParseMembers(_, _, _)
RECURSIVE jsonParseItems(_, _, _)
\* the members of an object from position i on: [v, next]
jsonParseMembers(s, i, acc) ==
    IF s[i] = "}" THEN [v |-> JObject(acc), next |-> i + 1]
    ELSE LET q == indexFrom(s, i + 1, "\"")
             name == SubSeq(s, i + 1, q - 1)
             val == jsonParseAt(s, q + 2)
             j == IF s[val.next] = "," THEN val.next + 1 ELSE val.next
         IN  jsonParseMembers(s, j, Append(acc, << name, val.v >>))

jsonParseItems(s, i, acc) ==
    IF s[i] = "]" THEN [v |-> JArray(acc), next |-> i + 1]
    ELSE LET val == jsonParseAt(s, i)
             j == IF s[val.next] = "," THEN val.next + 1 ELSE val.next
         IN  jsonParseItems(s, j, Append(acc, val.v))

\* the value of the text s that starts at position i, and the position
\* after it
jsonParseAt(s, i) ==
    CASE s[i] = "{" -> jsonParseMembers(s, i + 1, << >>)
      [] s[i] = "[" -> jsonParseItems(s, i + 1, << >>)
      [] s[i] = "\"" ->
            LET q == indexFrom(s, i + 1, "\"")
            IN  [v |-> JString(SubSeq(s, i + 1, q - 1)), next |-> q + 1]
      [] s[i] = "t" -> [v |-> JBool(TRUE), next |-> i + 4]
      [] s[i] = "f" -> [v |-> JBool(FALSE), next |-> i + 5]
      [] s[i] = "n" -> [v |-> JNull, next |-> i + 4]
      [] OTHER ->
            LET e == numberEnd(s, i)
            IN  [v |-> JNumber(SubSeq(s, i, e - 1)), next |-> e]

jsonParse(s) == jsonParseAt(s, 1).v

(***************************************************************************)
(* encoding/json: storing a parsed value into a destination.  Go values    *)
(* are the scalar records above, and the records below for the composite   *)
(* types.                                                                  *)
(***************************************************************************)
NilPtr == [kind |-> "ptr", nil |-> TRUE]

PtrTo(v) == [kind |-> "ptr", nil |-> FALSE, elem |-> v]

NilSlice == [kind |-> "slice", nil |-> TRUE, items |-> << >>]

SliceOf(items) == [kind |-> "slice", nil |-> FALSE, items |-> items]

ArrayOf(items) == [kind |-> "array", items |-> items]

NilMap == [kind |-> "gomap", nil |-> TRUE, m |-> EmptyMap]

MapOf(m) == [kind |-> "gomap", nil |-> FALSE, m |-> m]

\* a struct value: the values of its declared fields, by position
StructOf(f) == [kind |-> "struct", f |-> f]

RECURSIVE Zero(_)
\* the zero value of a type
Zero(t) ==
    CASE t.kind = "string" -> VStr(<< >>)
      [] t.kind = "int64" -> VInt64(0)
      [] t.kind = "bool" -> VBool(FALSE)
      [] t.kind \in {"float32", "float64"} -> VFloat(FALSE, 0, 0)
      [] t.kind = "interface" -> Null
      [] t.kind = "ptr" -> NilPtr
      [] t.kind = "slice" -> NilSlice
      [] t.kind = "array" -> ArrayOf([i \in 1..t.len |-> Zero(t.elem)])
      [] t.kind = "map" -> NilMap
      [] t.kind = "struct" -> StructOf([i \in 1..Len(t.fields) |-> Zero(t.fields[i].typ)])

\* error values
NoError == [msg |-> "<nil>"]

UnknownFieldError == [msg |-> "json: unknown field"]

UnmarshalTypeError == [msg |-> "json: cannot unmarshal"]

EOFError == [msg |-> "EOF"]

UnexpectedEOFError == [msg |-> "unexpected EOF"]

ErrClosedPipe == [msg |-> "io: read/write on closed pipe"]

UnsupportedValueError == [msg |-> "json: unsupported value"]

DuplicateKeyError == [msg |-> "yaml: key already set in map"]

ControlCharError == [msg |-> "yaml: control characters are not allowed"]

WriterError == [msg |-> "write failed"]

UnsupportedKeyError(k, v) == [msg |-> "Unsupported map key", key |-> k, val |-> v]

\* fmt.Errorf(prefix + ": %v", err)
Wrap(prefix, err) == [msg |-> prefix, cause |-> err]

\* d.saveError: the first error is the one kept
saveError(saved, e) == IF saved # NoError THEN saved ELSE e

\* position of the first c in s, or 0
firstIndex(s, c) ==
    IF \E i \in 1..Len(s) : s[i] = c
    THEN CHOOSE i \in 1..Len(s) : s[i] = c /\ \A j \in 1..(i - 1) : s[j] # c
    ELSE 0

\* strconv.ParseFloat of a JSON number literal
parseFloat(lit) ==
    LET neg == lit[1] = "-"
        body == IF neg THEN Tail(lit) ELSE lit
        epos == firstIndex(body, "e")
        mant == IF epos = 0 THEN body ELSE SubSeq(body, 1, epos - 1)
        etxt == IF epos = 0 THEN << "0" >> ELSE SubSeq(body, epos + 1, Len(body))
        eneg == etxt[1] = "-"
        edig == IF etxt[1] \in {"-", "+"} THEN Tail(etxt) ELSE etxt
        dot == firstIndex(mant, ".")
        digits == IF dot = 0 THEN mant
                  ELSE SubSeq(mant, 1, dot - 1) \o SubSeq(mant, dot + 1, Len(mant))
        frac == IF dot = 0 THEN 0 ELSE Len(mant) - dot
        e == (IF eneg THEN -ParseUint(edig) ELSE ParseUint(edig)) - frac
        n == stripZeros(ParseUint(digits), e)
    IN  VFloat(neg, n.dig, n.exp)

\* whether a number literal has the syntax of an integer
isIntLit(lit) ==
    LET body == IF lit[1] = "-" THEN Tail(lit) ELSE lit
    IN  Len(body) > 0 /\ \A i \in 1..Len(body) : IsDigit(body[i])

parseIntLit(lit) ==
    IF lit[1] = "-" THEN -ParseUint(Tail(lit)) ELSE ParseUint(lit)

(***************************************************************************)
(* float64 and the conversions between it and the integer types.  Whole    *)
(* numbers are rounded to MantBits bits; a conversion of a float to an     *)
(* integer type that cannot hold it is implementation-dependent, and is    *)
(* given for the two kinds of build: "amd64", which returns the sign bit   *)
(* alone, and "arm64", which saturates.                                    *)
(***************************************************************************)
Builds == {"amd64", "arm64"}

\* the float64 nearest to the natural number a, ties to even
roundToFloat(a) ==
    IF bitLen(a) <= MantBits THEN a
    ELSE LET ulp == Pow(2, bitLen(a) - MantBits)
             q == a \div ulp
             r == a % ulp
         IN  IF 2 * r > ulp \/ (2 * r = ulp /\ q % 2 = 1) THEN (q + 1) * ulp ELSE q * ulp

\* float64(n) for an integer n
float64OfInt(n) ==
    LET a == roundToFloat(IF n < 0 THEN -n ELSE n)
        z == stripZeros(a, 0)
    IN  VFloat(n < 0, z.dig, z.exp)

\* whether a float64 is a whole number
isWhole(f) == f.cls = "fin" /\ f.exp >= 0

\* a finite float64 with its fraction cut off
truncFloat(f) ==
    LET a == IF f.exp >= 0 THEN f.dig * Pow(10, f.exp) ELSE f.dig \div Pow(10, -f.exp)
    IN  IF f.neg THEN -a ELSE a

\* int64(f)
toInt64(f, build) ==
    IF f.cls = "fin" /\ truncFloat(f) >= MinInt64 /\ truncFloat(f) <= MaxInt64
    THEN truncFloat(f)
    ELSE IF build = "amd64" THEN MinInt64
    ELSE IF f.cls = "nan" THEN 0
    ELSE IF f.neg THEN MinInt64 ELSE MaxInt64

\* uint64(f)
toUint64(f, build) ==
    IF f.cls = "fin" /\ truncFloat(f) >= 0 /\ truncFloat(f) <= MaxUint64
    THEN truncFloat(f)
    ELSE IF build = "arm64"
    THEN (IF f.cls = "nan" \/ f.neg THEN 0 ELSE MaxUint64)
    ELSE IF f.cls = "fin" /\ f.neg /\ truncFloat(f) >= MinInt64
    THEN truncFloat(f) + MaxUint64 + 1
    ELSE IF f.cls = "fin" /\ ~f.neg /\ truncFloat(f) - MaxInt64 - 1 > MaxInt64 THEN 0
    ELSE MaxInt64 + 1

\* int(i64): the low IntBits bits, as a signed number
toInt(i) ==
    LET m == i % Pow(2, IntBits)
    IN  IF m > MaxInt THEN m - Pow(2, IntBits) ELSE m

RECURSIVE jsonGeneric(_)
RECURSIVE jsonGenericMembers(_, _, _)
jsonGenericMembers(members, i, acc) ==
    IF i > Len(members) THEN VObj(acc)
    ELSE jsonGenericMembers(members, i + 1,
                            MapSet(acc, members[i][1], jsonGeneric(members[i][2])))

\* the value stored into an empty interface{}
jsonGeneric(j) ==
    CASE j.kind = "jnull" -> Null
      [] j.kind = "jbool" -> VBool(j.b)
      [] j.kind = "jnumber" ->
            IF isIntLit(j.lit) THEN float64OfInt(parseIntLit(j.lit)) ELSE parseFloat(j.lit)
      [] j.kind = "jstring" -> VStr(j.s)
      [] j.kind = "jarray" -> VSeq([i \in 1..Len(j.items) |-> jsonGeneric(j.items[i])])
      [] j.kind = "jobject" -> jsonGenericMembers(j.members, 1, EmptyMap)

Stored(val, err) == [val |-> val, err |-> err]

RECURSIVE jsonStore(_, _, _, _)
RECURSIVE jsonStoreMembers(_, _, _, _, _, _)
RECURSIVE jsonStoreMapMembers(_, _, _, _, _, _)
RECURSIVE jsonStoreItems(_, _, _, _, _, _)
RECURSIVE jsonStoreAtPath(_, _, _, _, _)

\* store j into the field of the struct value cur (of type t) that the
\* index path leads to, allocating embedded pointers on the way
jsonStoreAtPath(cur, t, path, j, disallow) ==
    LET i == path[1]
        ft == t.fields[i].typ
        put(v) == StructOf([cur.f EXCEPT ![i] = v])
    IN  IF Len(path) = 1
        THEN LET r == jsonStore(j, ft, cur.f[i], disallow)
             IN  Stored(put(r.val), r.err)
        ELSE IF ft.kind = "ptr"
        THEN LET inner == IF cur.f[i].nil THEN Zero(ft.elem) ELSE cur.f[i].elem
                 r == jsonStoreAtPath(inner, ft.elem, Tail(path), j, disallow)
             IN  Stored(put(PtrTo(r.val)), r.err)
        ELSE LET r == jsonStoreAtPath(cur.f[i], ft, Tail(path), j, disallow)
             IN  Stored(put(r.val), r.err)

\* the field encoding/json decodes the member named key into: the first
\* whose name is the key exactly, else the first that equals it under case
\* folding; 0 when there is none
jsonFindField(fields, key) ==
    LET exact == {i \in 1..Len(fields) : fields[i].name = key}
        fold == {i \in 1..Len(fields) : equalFold(fields[i].name, key)}
        first(S) == CHOOSE i \in S : \A j \in S : i <= j
    IN  IF exact # {} THEN first(exact)
        ELSE IF fold # {} THEN first(fold)
        ELSE 0

\* the members of an object from the i-th on, stored into the struct cur
jsonStoreMembers(members, i, t, cur, err, disallow) ==
    IF i > Len(members) THEN Stored(cur, err)
    ELSE LET fields == cachedTypeFields(t)
             f == jsonFindField(fields, members[i][1])
         IN  IF f = 0
             THEN jsonStoreMembers(members, i + 1, t, cur,
                      IF disallow THEN saveError(err, UnknownFieldError) ELSE err,
                      disallow)
             ELSE LET r == jsonStoreAtPath(cur, t, fields[f].index, members[i][2], disallow)
                  IN  jsonStoreMembers(members, i + 1, t, r.val,
                                       saveError(err, r.err), disallow)

\* the members of an object from the i-th on, stored into the map m
jsonStoreMapMembers(members, i, t, m, err, disallow) ==
    IF i > Len(members) THEN Stored(MapOf(m), err)
    ELSE LET r == jsonStore(members[i][2], t.elem, Zero(t.elem), disallow)
         IN  jsonStoreMapMembers(members, i + 1, t, MapSet(m, members[i][1], r.val),
                                 saveError(err, r.err), disallow)

\* the elements of an array from the i-th on, stored after those of acc
jsonStoreItems(items, i, et, acc, err, disallow) ==
    IF i > Len(items) THEN Stored(acc, err)
    ELSE LET r == jsonStore(items[i], et, Zero(et), disallow)
         IN  jsonStoreItems(items, i + 1, et, Append(acc, r.val),
                            saveError(err, r.err), disallow)

\* d.value(v): j stored into the value cur of type t; a value of the wrong
\* shape is skipped and reported, and the rest is still decoded
jsonStore(j, t, cur, disallow) ==
    LET mismatch == Stored(cur, UnmarshalTypeError)
    IN  CASE t.kind = "ptr" ->
                IF j.kind = "jnull" THEN Stored(NilPtr, NoError)
                ELSE LET r == jsonStore(j, t.elem,
                                        IF cur.nil THEN Zero(t.elem) ELSE cur.elem, disallow)
                     IN  Stored(PtrTo(r.val), r.err)
          [] t.kind = "interface" -> Stored(jsonGeneric(j), NoError)
          [] j.kind = "jnull" -> Stored(IF t.kind \in {"slice", "map"} THEN Zero(t) ELSE cur,
                                        NoError)
          [] t.kind = "string" ->
                IF j.kind = "jstring" THEN Stored(VStr(j.s), NoError) ELSE mismatch
          [] t.kind = "bool" ->
                IF j.kind = "jbool" THEN Stored(VBool(j.b), NoError) ELSE mismatch
          [] t.kind = "int64" ->
                IF /\ j.kind = "jnumber"
                   /\ isIntLit(j.lit)
                   /\ parseIntLit(j.lit) >= MinInt64
                   /\ parseIntLit(j.lit) <= MaxInt64
                THEN Stored(VInt64(parseIntLit(j.lit)), NoError)
                ELSE mismatch
          [] t.kind \in {"float32", "float64"} ->
                IF j.kind = "jnumber" THEN Stored(parseFloat(j.lit), NoError) ELSE mismatch
          [] t.kind = "struct" ->
                IF j.kind = "jobject"
                THEN jsonStoreMembers(j.members, 1, t, cur, NoError, disallow)
                ELSE mismatch
          [] t.kind = "map" ->
                IF j.kind = "jobject"
                THEN jsonStoreMapMembers(j.members, 1, t, cur.m, NoError, disallow)
                ELSE mismatch
          [] t.kind = "slice" ->
                IF j.kind = "jarray"
                THEN LET r == jsonStoreItems(j.items, 1, t.elem, << >>, NoError, disallow)
                     IN  Stored(SliceOf(r.val), r.err)
                ELSE mismatch
          [] t.kind = "array" ->
                IF j.kind = "jarray"
                THEN LET n == IF Len(j.items) < t.len THEN Len(j.items) ELSE t.len
                         r == jsonStoreItems(SubSeq(j.items, 1, n), 1, t.elem, << >>,
                                             NoError, disallow)
                     IN  Stored(ArrayOf(r.val \o [i \in 1..(t.len - n) |-> Zero(t.elem)]),
                                r.err)
                ELSE mismatch

(***************************************************************************)
(* yamlToJSON and the byte-slice entry points.                             *)
(***************************************************************************)
\* bytes.TrimSpace
RECURSIVE TrimSpace(_)
TrimSpace(s) ==
    IF Len(s) = 0 THEN s
    ELSE IF s[1] = "\n" THEN TrimSpace(Tail(s))
    ELSE IF s[Len(s)] = "\n" THEN TrimSpace(SubSeq(s, 1, Len(s) - 1))
    ELSE s

\* yamlToJSON(jsonTarget, dec, tgt): the error returned and the bytes
\* written to tgt (in one Write), for every order of map iteration
yamlToJSON(jsonTarget, y, strict) ==
    LET p == yamlDecode(y, strict)
    IN  IF p.err THEN {[err |-> DuplicateKeyError, out |-> << >>]}
        ELSE { IF r.err THEN [err |-> UnsupportedKeyError(r.key, r.val), out |-> << >>]
               ELSE LET written(e) ==
                            IF e.err THEN [err |-> UnsupportedValueError, out |-> << >>]
                            ELSE [err |-> NoError, out |-> e.s]
                    IN  written(jsonEncode(r.v))
               : r \in convertToJSONableObject(p.v, jsonTarget) }

YAMLToJSON(y) ==
    {[bytes |-> TrimSpace(r.out), err |-> r.err] : r \in yamlToJSON(NoTarget, y, FALSE)}

\* YAMLToJSONStrict without dec.SetStrict(true)
YAMLToJSONStrict_notStrict(y) ==
    {[bytes |-> TrimSpace(r.out), err |-> r.err] : r \in yamlToJSON(NoTarget, y, FALSE)}

YAMLToJSONStrict(y) ==
    {[bytes |-> TrimSpace(r.out), err |-> r.err] : r \in yamlToJSON(NoTarget, y, TRUE)}

\* Unmarshal with a strict YAML decoder
UnmarshalDecoder_strict == [strict |-> TRUE, disallow |-> FALSE]

\* the Decoder that Unmarshal builds: not strict, no JSON options
UnmarshalDecoder == [strict |-> FALSE, disallow |-> FALSE]

\* UnmarshalStrict without the DisallowUnknownFields option
UnmarshalStrictDecoder_noDisallow == [strict |-> TRUE, disallow |-> FALSE]

\* the Decoder that UnmarshalStrict builds: DisallowUnknownFields appended
\* to the options, and SetStrict(true)
UnmarshalStrictDecoder == [strict |-> TRUE, disallow |-> TRUE]

\* what the YAML parser makes of JSON text (yamlDec.Decode in Encode): a
\* number keeps the type resolve gives it, an object has string keys
RECURSIVE yamlOfJSON(_)
RECURSIVE yamlOfJSONMembers(_, _, _)
yamlOfJSONMembers(members, i, acc) ==
    IF i > Len(members) THEN VMap(acc)
    ELSE yamlOfJSONMembers(members, i + 1,
                           MapSet(acc, VStr(members[i][1]), yamlOfJSON(members[i][2])))

yamlOfJSON(j) ==
    CASE j.kind = "jnull" -> Null
      [] j.kind = "jbool" -> VBool(j.b)
      [] j.kind = "jnumber" ->
            IF isIntLit(j.lit) THEN resolveInt(parseIntLit(j.lit)) ELSE parseFloat(j.lit)
      [] j.kind = "jstring" -> VStr(j.s)
      [] j.kind = "jarray" -> VSeq([i \in 1..Len(j.items) |-> yamlOfJSON(j.items[i])])
      [] j.kind = "jobject" -> yamlOfJSONMembers(j.members, 1, EmptyMap)

(***************************************************************************)
(* yaml.v2 on text: the reader, the scanner for the documents the emitter  *)
(* writes, and the emitter.  The documents are scalars and one-level block *)
(* mappings of scalars; integers are decimal without leading zeros.        *)
(***************************************************************************)
\* the reader's check of every character read: U+007F is not allowed
hasControl(s) == \E i \in 1..Len(s) : s[i] = "DEL"

\* whether a plain scalar has the syntax of a decimal integer
isPlainInt(s) ==
    LET body == IF Len(s) > 0 /\ s[1] \in {"-", "+"} THEN Tail(s) ELSE s
    IN  /\ Len(body) > 0
        /\ \A i \in 1..Len(body) : IsDigit(body[i])
        /\ (Len(body) > 1 => body[1] # "0")

\* whether a plain scalar has the syntax of a decimal float
isPlainFloat(s) ==
    /\ ~isPlainInt(s)
    /\ Len(s) > 0
    /\ \A i \in 1..Len(s) : IsDigit(s[i]) \/ s[i] \in {".", "e", "+", "-"}
    /\ IsDigit(s[Len(s)])
    /\ IsDigit(s[1]) \/ (Len(s) > 1 /\ s[1] = "-" /\ IsDigit(s[2]))

\* resolve: the node a plain scalar stands for
resolvePlain(s) ==
    CASE s \in { << >>, << "n", "u", "l", "l" >>, << "N", "u", "l", "l" >> } -> Null
      [] s \in { << "t", "r", "u", "e" >>, << "T", "r", "u", "e" >> } -> VBool(TRUE)
      [] s \in { << "f", "a", "l", "s", "e" >>, << "F", "a", "l", "s", "e" >>,
                 << "n" >>, << "N" >> } -> VBool(FALSE)
      [] isPlainInt(s) -> Plain(IF s[1] = "+" THEN ParseUint(Tail(s)) ELSE parseIntLit(s))
      [] isPlainFloat(s) -> parseFloat(s)
      [] OTHER -> VStr(s)

\* analyze_scalar: whether the emitter may write a string without quotes in
\* a block mapping
plainAllowed(s) ==
    /\ Len(s) > 0
    /\ \A i \in 1..Len(s) : s[i] \notin {"\n", "DEL", "\\"}
    /\ s[1] \notin {" ", "\"", "'", ",", "[", "]", "{", "}"}
    /\ s[Len(s)] \notin {" ", ":"}
    /\ s[1] \in {"-", ":"} => (Len(s) > 1 /\ s[2] # " ")
    /\ \A i \in 1..(Len(s) - 1) : ~(s[i] = ":" /\ s[i + 1] = " ")

\* the characters of a double-quoted scalar: the quote and the backslash
\* escaped, U+007F written \x7F
RECURSIVE dqEscape(_)
dqEscape(s) ==
    IF Len(s) = 0 THEN << >>
    ELSE (CASE s[1] = "DEL" -> << "\\", "x", "7", "F" >>
            [] s[1] \in {"\"", "\\"} -> << "\\", s[1] >>
            [] OTHER -> << s[1] >>) \o dqEscape(Tail(s))

\* the characters of a single-quoted scalar: the quote doubled
RECURSIVE sqEscape(_)
sqEscape(s) ==
    IF Len(s) = 0 THEN << >>
    ELSE (IF s[1] = "'" THEN << "'", "'" >> ELSE << s[1] >>) \o sqEscape(Tail(s))

\* the emitter's text of a scalar: a string is plain when it would be read
\* back as a string and may be written so, single-quoted when only its
\* shape forbids that, and double-quoted otherwise
yamlScalar(v) ==
    CASE v.kind = "null" -> << "n", "u", "l", "l" >>
      [] v.kind = "bool" ->
            (IF v.b THEN << "t", "r", "u", "e" >> ELSE << "f", "a", "l", "s", "e" >>)
      [] v.kind \in {"int", "int64"} -> FormatInt(v.i)
      [] v.kind = "uint64" -> FormatUint(v.i)
      [] v.kind = "float64" ->
            (CASE v = PosInf -> << ".", "i", "n", "f" >>
               [] v = NegInf -> << "-", ".", "i", "n", "f" >>
               [] v = NaN -> << ".", "n", "a", "n" >>
               [] OTHER -> FormatFloat(v, 64))
      [] v.kind = "string" ->
            IF resolvePlain(v.s) # VStr(v.s) \/ hasControl(v.s) \/ Len(v.s) = 0
            THEN << "\"" >> \o dqEscape(v.s) \o << "\"" >>
            ELSE IF plainAllowed(v.s) THEN v.s
            ELSE << "'" >> \o sqEscape(v.s) \o << "'" >>

\* the lines of a mapping for its keys in sorted order from the i-th on
RECURSIVE yamlMarshalEntries(_, _, _)
yamlMarshalEntries(m, keys, i) ==
    IF i > Len(keys) THEN << >>
    ELSE yamlScalar(VStr(keys[i])) \o << ":", " " >> \o yamlScalar(m[VStr(keys[i])])
         \o << "\n" >> \o yamlMarshalEntries(m, keys, i + 1)

\* yaml.Marshal: the block text of a value, a mapping with its keys sorted
yamlMarshal(v) ==
    IF v.kind = "map"
    THEN (IF DOMAIN v.m = {} THEN << "{", "}", "\n" >>
          ELSE yamlMarshalEntries(v.m, SortedStrs({k.s : k \in DOMAIN v.m}), 1))
    ELSE yamlScalar(v) \o << "\n" >>

\* the scalar token that starts at position i of a line: its node and the
\* position after it
RECURSIVE scanQuoted(_, _, _, _)
scanQuoted(line, i, q, acc) ==
    IF i > Len(line) THEN [node |-> VStr(acc), next |-> i]
    ELSE IF q = "\"" /\ line[i] = "\\" /\ i + 3 <= Len(line) /\ line[i + 1] = "x"
    THEN scanQuoted(line, i + 4, q, Append(acc, "DEL"))
    ELSE IF q = "\"" /\ line[i] = "\\" /\ i < Len(line)
    THEN scanQuoted(line, i + 2, q, Append(acc, line[i + 1]))
    ELSE IF q = "'" /\ line[i] = "'" /\ i < Len(line) /\ line[i + 1] = "'"
    THEN scanQuoted(line, i + 2, q, Append(acc, "'"))
    ELSE IF line[i] = q THEN [node |-> VStr(acc), next |-> i + 1]
    ELSE scanQuoted(line, i + 1, q, Append(acc, line[i]))

RECURSIVE plainEnd(_, _)
\* the position after a plain scalar: the end of the line or of the key
plainEnd(line, i) ==
    IF i > Len(line) THEN i
    ELSE IF line[i] = ":" /\ (i = Len(line) \/ line[i + 1] = " ") THEN i
    ELSE plainEnd(line, i + 1)

scanScalar(line, i) ==
    IF i > Len(line) THEN [node |-> Null, next |-> i]
    ELSE IF line[i] \in {"\"", "'"} THEN scanQuoted(line, i + 1, line[i], << >>)
    ELSE LET e == plainEnd(line, i)
         IN  [node |-> resolvePlain(SubSeq(line, i, e - 1)), next |-> e]

\* the lines of a text
RECURSIVE splitLines(_)
splitLines(s) ==
    LET n == firstIndex(s, "\n")
    IN  IF Len(s) = 0 THEN << >>
        ELSE IF n = 0 THEN << s >>
        ELSE << SubSeq(s, 1, n - 1) >> \o splitLines(SubSeq(s, n + 1, Len(s)))

\* the entry or the scalar that one line holds
scanLine(line) ==
    LET entry(k) ==
            IF k.next <= Len(line) /\ line[k.next] = ":"
            THEN [entry |-> TRUE, k |-> k.node, v |-> scanScalar(line, k.next + 2).node]
            ELSE [entry |-> FALSE, k |-> k.node, v |-> Null]
    IN  entry(scanScalar(line, 1))

\* the document of a block text, or the reader's error
yamlParseText(text) ==
    LET document(ls) ==
            IF ~ls[1].entry THEN [err |-> NoError, y |-> ls[1].k]
            ELSE [err |-> NoError,
                  y |-> Mapping([i \in 1..Len(ls) |-> << ls[i].k, ls[i].v >>])]
        parse(lines) ==
            IF Len(lines) = 0 THEN [err |-> NoError, y |-> Null]
            ELSE IF lines = << << "{", "}" >> >> THEN [err |-> NoError, y |-> Mapping(<< >>)]
            ELSE document([i \in 1..Len(lines) |-> scanLine(lines[i])])
    IN  IF hasControl(text) THEN [err |-> ControlCharError, y |-> Null]
        ELSE parse(splitLines(text))

\* JSONToYAML(j): yaml.Unmarshal reads the JSON text as a YAML document in
\* flow style, yaml.Marshal writes the value
JSONToYAML(j) ==
    IF hasControl(j) THEN [bytes |-> << >>, err |-> ControlCharError]
    ELSE [bytes |-> yamlMarshal(yamlOfJSON(jsonParse(j))), err |-> NoError]

\* YAMLToJSON(y) for y given as text
YAMLToJSONText(text) ==
    LET convert(p) == IF p.err # NoError THEN {[bytes |-> << >>, err |-> p.err]}
                      ELSE YAMLToJSON(p.y)
    IN  convert(yamlParseText(text))

(***************************************************************************)
(* JSON object -> YAML object (JSONObjectToYAMLObject, jsonToYAMLValue).   *)
(***************************************************************************)
\* a nil map[string]interface{} and a nil []interface{} held in an interface
NilObj == [kind |-> "nilobject"]

NilSeq == [kind |-> "nilseq"]

\* yaml.MapSlice: items << key, value >> in order; MapSlice(<< >>) is nil
MapSlice(items) == [kind |-> "mapslice", items |-> items]

\* the sequences that hold every element of the finite set S once
RECURSIVE Perms(_)
Perms(S) ==
    IF S = {} THEN {<< >>}
    ELSE UNION { { << x >> \o p : p \in Perms(S \ {x}) } : x \in S }

RECURSIVE jsonToYAMLValue(_, _)
RECURSIVE JSONObjectToYAMLObject(_, _)
RECURSIVE jsonToYAMLItems(_, _)
\* the MapSlices the range loop over the map j can build: the entries in
\* any order
JSONObjectToYAMLObject(j, build) ==
    IF DOMAIN j.m = {} THEN {MapSlice(<< >>)}
    ELSE LET vals == { f \in [DOMAIN j.m -> UNION {jsonToYAMLValue(j.m[k], build) : k \in DOMAIN j.m}] :
                         \A k \in DOMAIN j.m : f[k] \in jsonToYAMLValue(j.m[k], build) }
         IN  { MapSlice([i \in 1..Len(ks) |-> << ks[i], f[ks[i]] >>]) :
                 ks \in Perms(DOMAIN j.m), f \in vals }

\* the converted elements of a slice
jsonToYAMLItems(items, build) ==
    IF Len(items) = 0 THEN {<< >>}
    ELSE { << h >> \o t : h \in jsonToYAMLValue(items[1], build),
                          t \in jsonToYAMLItems(Tail(items), build) }

\* the values jsonToYAMLValue(j) can return
jsonToYAMLValue(j, build) ==
    CASE j.kind \in {"nilobject", "nilseq"} -> {Null}
      [] j.kind = "object" -> JSONObjectToYAMLObject(j, build)
      [] j.kind = "seq" -> {VSeq(t) : t \in jsonToYAMLItems(j.items, build)}
      [] j.kind = "float64" ->
            LET i64 == toInt64(j, build)
                ui64 == toUint64(j, build)
            IN  IF j = float64OfInt(i64)
                THEN (IF i64 = toInt(i64) THEN {VInt(toInt(i64))} ELSE {VInt64(i64)})
                ELSE IF j = float64OfInt(ui64) THEN {VUint64(ui64)}
                ELSE {j}
      [] j.kind = "int64" ->
            IF j.i = toInt(j.i) THEN {VInt(toInt(j.i))} ELSE {j}
      [] OTHER -> {j}

(***************************************************************************)
(* The containers of a value tree as cells of a heap.  A Go map or slice   *)
(* is a reference: the heap is the sequence of the cells made so far, a    *)
(* container holds scalars and references to cells, and make appends a     *)
(* cell.  The conversions below are the ones above with every allocation   *)
(* and every store of the code written out.                                *)
(***************************************************************************)
Ref(a) == [kind |-> "ref", a |-> a]

RECURSIVE heapTree(_, _)
\* the value tree the reference or scalar r stands for in the heap h
heapTree(h, r) ==
    IF r.kind # "ref" THEN r
    ELSE CASE h[r.a].kind \in {"map", "object"} ->
                [kind |-> h[r.a].kind,
                 m |-> [k \in DOMAIN h[r.a].m |-> heapTree(h, h[r.a].m[k])]]
           [] h[r.a].kind = "seq" ->
                VSeq([i \in 1..Len(h[r.a].items) |-> heapTree(h, h[r.a].items[i])])
           [] h[r.a].kind = "mapslice" ->
                MapSlice([i \in 1..Len(h[r.a].items) |->
                             << h[r.a].items[i][1], heapTree(h, h[r.a].items[i][2]) >>])

RECURSIVE allocTree(_, _)
RECURSIVE allocEntries(_, _, _, _)
RECURSIVE allocItems(_, _, _, _)
\* the entries of the map m still to do, put into the heap one by one
allocEntries(h, m, todo, refs) ==
    IF todo = {} THEN [h |-> h, refs |-> refs]
    ELSE LET k == CHOOSE x \in todo : TRUE
             rest(e) == allocEntries(e.h, m, todo \ {k}, MapSet(refs, k, e.r))
         IN  rest(allocTree(h, m[k]))

\* the elements from the i-th on, put into the heap one by one
allocItems(h, items, i, refs) ==
    IF i > Len(items) THEN [h |-> h, refs |-> refs]
    ELSE LET rest(e) == allocItems(e.h, items, i + 1, Append(refs, e.r))
         IN  rest(allocTree(h, items[i]))

\* the value tree v as the caller holds it: its containers are cells of the
\* heap, r is the reference (or the scalar) the caller passes
allocTree(h, v) ==
    CASE v.kind \in {"map", "object"} ->
            LET cell(e) == [h |-> Append(e.h, [kind |-> v.kind, m |-> e.refs]),
                            r |-> Ref(Len(e.h) + 1)]
            IN  cell(allocEntries(h, v.m, DOMAIN v.m, EmptyMap))
      [] v.kind = "seq" ->
            LET cell(e) == [h |-> Append(e.h, [kind |-> "seq", items |-> e.refs]),
                            r |-> Ref(Len(e.h) + 1)]
            IN  cell(allocItems(h, v.items, 1, << >>))
      [] OTHER -> [h |-> h, r |-> v]

\* what a conversion returns: the heap it leaves, and the reference, scalar
\* or error it hands back
OnHeap(h, err, r) == [h |-> h, err |-> err, r |-> r]

RECURSIVE convertOnHeap(_, _, _)
RECURSIVE convertEntriesOnHeap(_, _, _, _, _)
RECURSIVE convertItemsOnHeap(_, _, _, _, _)
\* the range loop over the map at typedYAMLObj with the keys todo still to
\* visit: strMap[keyString] = the converted value
convertEntriesOnHeap(h, typedYAMLObj, todo, strMap, t) ==
    IF todo = {} THEN {OnHeap(h, FALSE, Ref(strMap))}
    ELSE UNION {
        LET ks == keyString(k)
        IN  IF ~ks.ok
            THEN {OnHeap(h, TRUE, UnsupportedKey(k, heapTree(h, h[typedYAMLObj].m[k])))}
            ELSE UNION {
                IF c.err THEN {c}
                ELSE convertEntriesOnHeap(
                         [c.h EXCEPT ![strMap].m = MapSet(@, ks.s, c.r)],
                         typedYAMLObj, todo \ {k}, strMap, t)
                : c \in convertOnHeap(h, h[typedYAMLObj].m[k], entryTarget(t, ks.s)) }
        : k \in todo }

\* convertItemsOnHeap with the converted value stored back into the slice
\* it was read from
convertItemsOnHeap_inPlace(h, typedYAMLObj, i, arr, et) ==
    IF i > Len(h[typedYAMLObj].items) THEN {OnHeap(h, FALSE, Ref(typedYAMLObj))}
    ELSE UNION {
        IF c.err THEN {c}
        ELSE convertItemsOnHeap([c.h EXCEPT ![typedYAMLObj].items[i] = c.r],
                                typedYAMLObj, i + 1, arr, et)
        : c \in convertOnHeap(h, h[typedYAMLObj].items[i], et) }

\* the loop over the elements from the i-th on: arr[i] = the converted value
convertItemsOnHeap(h, typedYAMLObj, i, arr, et) ==
    IF i > Len(h[typedYAMLObj].items) THEN {OnHeap(h, FALSE, Ref(arr))}
    ELSE UNION {
        IF c.err THEN {c}
        ELSE convertItemsOnHeap([c.h EXCEPT ![arr].items[i] = c.r],
                                typedYAMLObj, i + 1, arr, et)
        : c \in convertOnHeap(h, h[typedYAMLObj].items[i], et) }

\* convertToJSONableObject on the heap h: strMap and arr are made new, the
\* cells of yamlObj are read
convertOnHeap(h, yamlObj, jsonTarget) ==
    LET t == IF jsonTarget.kind = "none" THEN jsonTarget ELSE indirect(jsonTarget)
    IN  IF yamlObj.kind # "ref" THEN {OnHeap(h, FALSE, coerceScalar(yamlObj, t))}
        ELSE IF h[yamlObj.a].kind = "map"
        THEN convertEntriesOnHeap(Append(h, [kind |-> "object", m |-> EmptyMap]),
                                  yamlObj.a, DOMAIN h[yamlObj.a].m, Len(h) + 1, t)
        ELSE convertItemsOnHeap(
                 Append(h, [kind |-> "seq",
                            items |-> [i \in 1..Len(h[yamlObj.a].items) |-> Null]]),
                 yamlObj.a, 1, Len(h) + 1, elemTarget(t))

RECURSIVE jsonToYAMLValueOnHeap(_, _, _)
RECURSIVE appendItemsOnHeap(_, _, _, _, _)
RECURSIVE jsonToYAMLItemsOnHeap(_, _, _, _, _)
\* the range loop over the map at j with the keys todo still to visit:
\* ret = append(ret, yaml.MapItem{Key: k, Value: jsonToYAMLValue(v)})
appendItemsOnHeap(h, j, todo, ret, build) ==
    IF todo = {} THEN {OnHeap(h, FALSE, Ref(ret))}
    ELSE UNION {
        UNION {
            appendItemsOnHeap([c.h EXCEPT ![ret].items = Append(@, << k, c.r >>)],
                              j, todo \ {k}, ret, build)
            : c \in jsonToYAMLValueOnHeap(h, h[j].m[k], build) }
        : k \in todo }

\* the loop over the elements from the i-th on: ret[i] = jsonToYAMLValue(j[i])
jsonToYAMLItemsOnHeap(h, j, i, ret, build) ==
    IF i > Len(h[j].items) THEN {OnHeap(h, FALSE, Ref(ret))}
    ELSE UNION {
        jsonToYAMLItemsOnHeap([c.h EXCEPT ![ret].items[i] = c.r], j, i + 1, ret, build)
        : c \in jsonToYAMLValueOnHeap(h, h[j].items[i], build) }

\* JSONObjectToYAMLObject on the heap h for the map at the address j: nil
\* for an empty map, else a MapSlice made new
JSONObjectToYAMLObjectOnHeap(h, j, build) ==
    IF DOMAIN h[j].m = {} THEN {OnHeap(h, FALSE, MapSlice(<< >>))}
    ELSE appendItemsOnHeap(Append(h, [kind |-> "mapslice", items |-> << >>]),
                           j, DOMAIN h[j].m, Len(h) + 1, build)

\* jsonToYAMLValue on the heap h
jsonToYAMLValueOnHeap(h, j, build) ==
    IF j.kind # "ref" THEN {OnHeap(h, FALSE, v) : v \in jsonToYAMLValue(j, build)}
    ELSE IF h[j.a].kind = "object" THEN JSONObjectToYAMLObjectOnHeap(h, j.a, build)
    ELSE jsonToYAMLItemsOnHeap(
             Append(h, [kind |-> "seq",
                        items |-> [i \in 1..Len(h[j.a].items) |-> Null]]),
             j.a, 1, Len(h) + 1, build)

\* the value or the error a conversion on the heap hands back
heapResult(c) == IF c.err THEN c.r ELSE Converted(heapTree(c.h, c.r))

(***************************************************************************)
(* The state: one call of an entry point at a time.  Encode and Decode run *)
(* as two tasks, the caller (main) and the goroutine it starts (the        *)
(* producer), joined by an io.Pipe.                                        *)
(***************************************************************************)
VARIABLES
    op,       \* the entry point being called, "idle" between calls
    in,       \* its arguments
    dest,     \* the value the caller's pointer o points to
    ret,      \* what the call returned, once it has
    mpc,      \* where the caller is
    ppc,      \* where the goroutine is
    pipe,     \* the io.Pipe: the bytes of the pending Write and the two closed flags
    buf,      \* the bytes the consumer has read
    errChan,  \* Decode's errChan (capacity 1)
    jsonErr,  \* Encode: the variable shared with the goroutine; Decode: a local
    yamlErr,  \* the local yamlErr of Encode and Decode
    perr      \* the goroutine's result, before it is handed over

vars == << op, in, dest, ret, mpc, ppc, pipe, buf, errChan, jsonErr, yamlErr, perr >>

NewPipe == [data |-> << >>, wclosed |-> FALSE, rclosed |-> FALSE]

NotReturned == [done |-> FALSE]

DecodeOps == {"Unmarshal", "UnmarshalStrict"}

(***************************************************************************)
(* The inputs: texts, destination types (those of the tests), documents.   *)
(***************************************************************************)
sa == << "a" >>

sA == << "A" >>

sb == << "b" >>

sc == << "c" >>

sx == << "x" >>

s1 == << "1" >>

strue == << "t", "r", "u", "e" >>

sTrue == << "T", "r", "u", "e" >>

sname == << "n", "a", "m", "e" >>

sid == << "i", "d" >>

\* struct { A string; True string }
UnmarshalString ==
    TStruct(<< GoField(sA, << >>, TString, FALSE), GoField(sTrue, << >>, TString, FALSE) >>)

\* struct { A string; B int64; C float32; D float64 }
MarshalTest ==
    TStruct(<< GoField(sA, << >>, TString, FALSE), GoField(<< "B" >>, << >>, TInt64, FALSE),
               GoField(<< "C" >>, << >>, TFloat32, FALSE),
               GoField(<< "D" >>, << >>, TFloat64, FALSE) >>)

\* struct { A map[string]string }
UnmarshalStringMap == TStruct(<< GoField(sA, << >>, TMap(TString), FALSE) >>)

\* struct { A string }
NestedString == TStruct(<< GoField(sA, << >>, TString, FALSE) >>)

\* struct { A NestedString }
UnmarshalNestedString == TStruct(<< GoField(sA, << >>, NestedString, FALSE) >>)

\* struct { B string; C *string }
NestedSlice ==
    TStruct(<< GoField(<< "B" >>, << >>, TString, FALSE),
               GoField(<< "C" >>, << >>, TPtr(TString), FALSE) >>)

\* struct { A []NestedSlice }
UnmarshalSlice == TStruct(<< GoField(sA, << >>, TSlice(NestedSlice), FALSE) >>)

\* struct { Name string `json:"name"`; ID string `json:"id"` }
NamedThing ==
    TStruct(<< GoField(<< "N", "a", "m", "e" >>, sname, TString, FALSE),
               GoField(<< "I", "D" >>, sid, TString, FALSE) >>)

\* map[string]*NamedThing
NamedThingMap == TMap(TPtr(NamedThing))

\* struct { A string `json:"a"`; B *string `json:"b"`; C string `json:"c"` }
UnmarshalStruct ==
    TStruct(<< GoField(sA, sa, TString, FALSE), GoField(<< "B" >>, sb, TPtr(TString), FALSE),
               GoField(<< "C" >>, sc, TString, FALSE) >>)

\* struct { UnmarshalStruct; B string `json:"b"` }
UnmarshalEmbedStruct ==
    TStruct(<< GoField(<< "U" >>, << >>, UnmarshalStruct, TRUE),
               GoField(<< "B" >>, sb, TString, FALSE) >>)

\* struct { *UnmarshalStruct; B string `json:"b"` }
UnmarshalEmbedStructPointer ==
    TStruct(<< GoField(<< "U" >>, << >>, TPtr(UnmarshalStruct), TRUE),
               GoField(<< "B" >>, sb, TString, FALSE) >>)

\* the first whole number a float64 cannot hold (a scale model of 2^53 + 1)
WideInt == Pow(2, MantBits) + 1

\* the first whole number a float32 cannot hold (a scale model of 2^24 + 1)
WideFloat == VFloat(FALSE, Pow(2, MantBits32) + 1, 0)

Scalars ==
    { Null, VBool(TRUE), VBool(FALSE), VStr(sa),
      Plain(0), Plain(-1), Plain(12), Plain(MaxInt + 1), Plain(WideInt), Plain(MinInt64),
      Plain(MaxInt64 + 1), Plain(MaxUint64), VFloat(FALSE, 12, -1), WideFloat, PosInf }

Keys ==
    { VStr(sa), VStr(sA), VStr(strue), VStr(sx),
      Plain(1), Plain(-12), Plain(MaxInt + 1), Plain(MaxUint64),
      VBool(TRUE), VBool(FALSE), Null,
      VFloat(FALSE, 12, -1), VFloat(FALSE, 1, 36), WideFloat, PosInf, NegInf, NaN }

\* { a: v }
DocsA == { Mapping(<< << VStr(sa), v >> >>) : v \in Scalars }

\* { k: v }
DocsK == { Mapping(<< << k, v >> >>) : k \in Keys, v \in {VStr(sa), Plain(1), Null} }

Entries2 ==
    { << VStr(sa), VBool(TRUE) >>, << VStr(sa), VBool(FALSE) >>, << VStr(sA), Plain(1) >>,
      << VStr(sx), VStr(sb) >>, << Plain(1), VStr(sa) >>, << VStr(s1), VStr(sb) >>,
      << Null, VStr(sa) >>, << VBool(TRUE), Plain(1) >>, << VStr(strue), Plain(2) >>,
      << VStr(sname), VStr(sa) >> }

\* { k1: v1, k2: v2 }, among them the mappings with a key twice
Docs2 == { Mapping(<< e1, e2 >>) : e1 \in Entries2, e2 \in Entries2 }

Inner ==
    { Mapping(<< << VStr(sa), Plain(1) >> >>),
      Mapping(<< << VStr(sb), Plain(1) >> >>),
      Mapping(<< << Null, Plain(1) >> >>),
      Mapping(<< << VStr(sname), VStr(sa) >>, << VStr(sid), Plain(1) >>, << VStr(sid), Plain(2) >> >>),
      Mapping(<< << VStr(sb), Plain(1) >>, << VStr(sc), Plain(2) >> >>),
      VSeq(<< Mapping(<< << VStr(sb), VStr(sa) >>, << VStr(sc), Plain(12) >> >>) >>),
      VSeq(<< Plain(1), Mapping(<< << VStr(sa), Plain(1) >>, << VStr(sa), Plain(2) >> >>) >>),
      VSeq(<< VStr(sa), Mapping(<< << Null, Plain(1) >> >>) >>) }

\* { a: inner } and [ inner ]
DocsNested ==
    { Mapping(<< << VStr(sa), d >> >>) : d \in Inner } \cup { VSeq(<< d >>) : d \in Inner }

\* { a: { null: 1 }, a: 1 } and { a: 1, a: { null: 1 } }
DocsOverwritten ==
    { Mapping(<< << VStr(sa), Mapping(<< << Null, Plain(1) >> >>) >>, << VStr(sa), Plain(1) >> >>),
      Mapping(<< << VStr(sa), Plain(1) >>, << VStr(sa), Mapping(<< << Null, Plain(1) >> >>) >> >>) }

\* { a: v, b: a }
DocsEmbed ==
    { Mapping(<< << VStr(sa), v >>, << VStr(sb), VStr(sa) >> >>) :
        v \in {Plain(1), VBool(TRUE), VStr(sa)} }

\* [ 12, a ], [ true ] and [ [ 12 ] ]
DocsSeq ==
    { VSeq(<< Plain(12), VStr(sa) >>), VSeq(<< VBool(TRUE) >>),
      VSeq(<< VSeq(<< Plain(12) >>) >>) }

Docs ==
    Scalars \cup DocsA \cup DocsK \cup Docs2 \cup DocsNested \cup DocsOverwritten
    \cup DocsEmbed \cup DocsSeq

\* the (document, destination type) pairs decoded
DecodeCases ==
    (DocsA \X {UnmarshalString, MarshalTest, TInterface, TMap(TString)})
    \cup (DocsK \X {UnmarshalString})
    \cup (Docs2 \X {UnmarshalString, NamedThing, TMap(TString)})
    \cup (DocsNested \X {UnmarshalStringMap, UnmarshalNestedString, UnmarshalSlice,
                         NamedThingMap, TInterface})
    \cup (Scalars \X {TString, TInterface})
    \cup (DocsEmbed \X {UnmarshalEmbedStruct, UnmarshalEmbedStructPointer})
    \cup (DocsSeq \X {TSlice(TString), TArray(TString, 2)})

\* the jsonTarget arguments convertToJSONableObject is applied to
Targets ==
    { NoTarget, TString, TPtr(TString), TInt64, TBool, TInterface, TSlice(TString),
      TArray(TString, 2), TMap(TString), UnmarshalString, TPtr(UnmarshalString),
      NamedThing, UnmarshalStringMap, UnmarshalNestedString, UnmarshalSlice, NamedThingMap,
      UnmarshalEmbedStruct, UnmarshalEmbedStructPointer }

sDEL == << "DEL" >>

\* the values Encode is given: JSON-compatible trees, values JSON cannot
\* hold, and strings with the character U+007F, which JSON text carries
\* as it is and the YAML reader rejects
EncodeValues ==
    { VStr(sa), VInt(1), Null, NaN,
      VObj(sa :> VInt(1)), VObj(sa :> VStr(sb) @@ sb :> VSeq(<< VInt(1), Null >>)),
      VObj(sa :> NaN), VSeq(<< VBool(TRUE) >>),
      VStr(sDEL), VStr(sDEL \o sa), VStr(sa \o sa \o sDEL), VObj(sa :> VStr(sDEL)) }

st == << "t" >>

\* the scalars of the round trip: strings, booleans, null and integers
RoundTripScalars ==
    { VStr(sa), VStr(s1), VStr(strue), VStr(<< >>), VStr(<< "n" >>),
      VStr(<< "a", ":", " ", "b" >>), VStr(sDEL),
      VBool(TRUE), VBool(FALSE), Null,
      VInt(0), VInt(-1), VInt(12), VInt64(MaxInt + 1), VInt64(MinInt64) }

\* the JSON texts { "t": scalar } and { "1": scalar }
RoundTripJSON == { jsonMarshal(VObj(k :> v)).s : k \in {st, s1}, v \in RoundTripScalars }

\* the YAML texts the emitter writes for { t: scalar }
CanonicalYAML == { yamlMarshal(VMap(VStr(st) :> v)) : v \in RoundTripScalars }

\* the JSON text of an object with its members in the given order
jsonObjectText(m, keys) == << "{" >> \o jsonMarshalMembers(m, keys, 1).s \o << "}" >>

\* JSON objects of two and three members, in every order of the members
OrderedJSON ==
    LET m == sa :> VInt(1) @@ sb :> VStr(sa) @@ sc :> Null
    IN  { jsonObjectText(m, ks) :
            ks \in { << sa, sb >>, << sb, sa >>, << sc, sa >>, << sa, sb, sc >>,
                     << sc, sb, sa >>, << sb, sc, sa >> } }

JSONTexts == RoundTripJSON \cup OrderedJSON

\* the numbers jsonToYAMLValue is given: whole and fractional float64s in
\* and out of the range of each integer type, and int64s
JSONNumbers ==
    { VFloat(FALSE, 0, 0), VFloat(FALSE, 1, 0), VFloat(TRUE, 1, 0), VFloat(FALSE, 15, -1),
      VFloat(TRUE, 15, -1), VFloat(TRUE, 5, -1), VFloat(FALSE, 12, 0),
      float64OfInt(MaxInt), float64OfInt(MaxInt + 1), float64OfInt(MinInt),
      float64OfInt(MinInt - 2), float64OfInt(MinInt64),
      float64OfInt(MaxInt64 + 1), float64OfInt(MaxUint64 + 1),
      float64OfInt(2 * (MaxUint64 + 1)), float64OfInt(2 * MinInt64),
      PosInf, NegInf, NaN,
      VInt64(0), VInt64(12), VInt64(MaxInt), VInt64(MaxInt + 1), VInt64(MinInt),
      VInt64(MinInt - 1), VInt64(MaxInt64), VInt64(MinInt64) }

\* the values jsonToYAMLValue is given
JSONValues ==
    JSONNumbers
    \cup { VStr(sa), VBool(TRUE), Null, VInt(3), VUint64(MaxUint64), NilObj, NilSeq,
           VSeq(<< >>), VObj(EmptyMap),
           VSeq(<< VFloat(FALSE, 1, 0), VStr(sa) >>),
           VObj(sa :> VFloat(FALSE, 1, 0)) }

\* the maps JSONObjectToYAMLObject is given
JSONObjects ==
    { VObj(EmptyMap), VObj(sa :> VInt64(1)),
      VObj(sa :> VFloat(FALSE, 1, 0) @@ sb :> VStr(sa)),
      VObj(sa :> Null @@ sb :> VObj(sc :> VBool(TRUE)) @@ sc :> NilSeq) }

(***************************************************************************)
(* Init and the actions.                                                   *)
(***************************************************************************)
Init ==
    /\ op = "idle"
    /\ in = [y |-> Null]
    /\ dest = Null
    /\ ret = NotReturned
    /\ mpc = "idle"
    /\ ppc = "idle"
    /\ pipe = NewPipe
    /\ buf = << >>
    /\ errChan = << >>
    /\ jsonErr = NoError
    /\ yamlErr = NoError
    /\ perr = NoError

bridgeVars == << mpc, ppc, pipe, buf, errChan, jsonErr, yamlErr, perr >>

\* a direct application of convertToJSONableObject to a decoded value
CallConvert(y, t) ==
    /\ op = "idle"
    /\ ~yamlDecode(y, FALSE).err
    /\ LET call(a) ==
               /\ in' = [y |-> y, t |-> t, heap |-> a.h, obj |-> a.r]
               /\ \E c \in convertOnHeap(a.h, a.r, t) :
                      ret' = [done |-> TRUE, out |-> heapResult(c), heap |-> c.h, ref |-> c.r]
       IN  call(allocTree(<< >>, yamlDecode(y, FALSE).v))
    /\ op' = "convertToJSONableObject"
    /\ UNCHANGED << dest, bridgeVars >>

CallYAMLToJSON(y) ==
    /\ op = "idle"
    /\ \E r \in YAMLToJSON(y) : ret' = [done |-> TRUE, bytes |-> r.bytes, err |-> r.err]
    /\ op' = "YAMLToJSON"
    /\ in' = [y |-> y]
    /\ UNCHANGED << dest, bridgeVars >>

CallYAMLToJSONStrict(y) ==
    /\ op = "idle"
    /\ \E r \in YAMLToJSONStrict(y) : ret' = [done |-> TRUE, bytes |-> r.bytes, err |-> r.err]
    /\ op' = "YAMLToJSONStrict"
    /\ in' = [y |-> y]
    /\ UNCHANGED << dest, bridgeVars >>

\* Decoder.Decode up to the go statement, for the Decoder d reading y and
\* the pointer o to a zero value of type t
StartDecode(name, d, y, t) ==
    /\ op = "idle"
    /\ op' = name
    /\ in' = [y |-> y, t |-> t, dec |-> d]
    /\ dest' = Zero(t)
    /\ mpc' = "jsonUnmarshal"
    /\ ppc' = "yamlToJSON"
    /\ pipe' = NewPipe
    /\ UNCHANGED << ret, buf, errChan, jsonErr, yamlErr, perr >>

CallUnmarshal(y, t) == StartDecode("Unmarshal", UnmarshalDecoder, y, t)

CallUnmarshalStrict(y, t) == StartDecode("UnmarshalStrict", UnmarshalStrictDecoder, y, t)

\* Encoder.Encode up to the go statement
CallEncode(o, writerFails) ==
    /\ op = "idle"
    /\ op' = "Encode"
    /\ in' = [o |-> o, writerFails |-> writerFails]
    /\ mpc' = "yamlDecode"
    /\ ppc' = "jsonEncode"
    /\ pipe' = NewPipe
    /\ UNCHANGED << dest, ret, buf, errChan, jsonErr, yamlErr, perr >>

\* ProducerYAMLToJSON with no jsonTarget given to the strict conversion, as
\* if UnmarshalStrict went through YAMLToJSONStrict
ProducerYAMLToJSON_strictNoTarget ==
    /\ op \in DecodeOps
    /\ ppc = "yamlToJSON"
    /\ \E r \in yamlToJSON(IF in.dec.strict THEN NoTarget ELSE TPtr(in.t), in.y,
                           in.dec.strict) :
           IF r.err # NoError
           THEN /\ perr' = r.err
                /\ ppc' = "result"
                /\ pipe' = pipe
           ELSE /\ pipe' = [pipe EXCEPT !.data = r.out]
                /\ ppc' = "write"
                /\ perr' = perr
    /\ UNCHANGED << op, in, dest, ret, mpc, buf, errChan, jsonErr, yamlErr >>

\* goroutine of Decode: yamlToJSON up to its Write into the pipe
ProducerYAMLToJSON ==
    /\ op \in DecodeOps
    /\ ppc = "yamlToJSON"
    /\ \E r \in yamlToJSON(TPtr(in.t), in.y, in.dec.strict) :
           IF r.err # NoError
           THEN /\ perr' = r.err
                /\ ppc' = "result"
                /\ pipe' = pipe
           ELSE /\ pipe' = [pipe EXCEPT !.data = r.out]
                /\ ppc' = "write"
                /\ perr' = perr
    /\ UNCHANGED << op, in, dest, ret, mpc, buf, errChan, jsonErr, yamlErr >>

\* goroutine of Encode: jsonEnc.Encode(o) up to its Write into the pipe
ProducerJSONEncode ==
    /\ op = "Encode"
    /\ ppc = "jsonEncode"
    /\ LET e == jsonEncode(in.o)
       IN  IF e.err
           THEN /\ perr' = UnsupportedValueError
                /\ ppc' = "result"
                /\ pipe' = pipe
           ELSE /\ pipe' = [pipe EXCEPT !.data = e.s]
                /\ ppc' = "write"
                /\ perr' = perr
    /\ UNCHANGED << op, in, dest, ret, mpc, buf, errChan, jsonErr, yamlErr >>

\* PipeWriter.Write returns once the reader has taken every byte
ProducerWriteDone ==
    /\ ppc = "write"
    /\ pipe.data = << >>
    /\ perr' = NoError
    /\ ppc' = "result"
    /\ UNCHANGED << op, in, dest, ret, mpc, pipe, buf, errChan, jsonErr, yamlErr >>

\* PipeWriter.Write fails once the read side is closed
ProducerWriteClosed ==
    /\ ppc = "write"
    /\ pipe.data # << >>
    /\ pipe.rclosed
    /\ perr' = ErrClosedPipe
    /\ ppc' = "result"
    /\ UNCHANGED << op, in, dest, ret, mpc, pipe, buf, errChan, jsonErr, yamlErr >>

\* goroutine of Decode: errChan <- (the result of yamlToJSON)
ProducerSend ==
    /\ op \in DecodeOps
    /\ ppc = "result"
    /\ errChan' = Append(errChan, perr)
    /\ ppc' = "close"
    /\ UNCHANGED << op, in, dest, ret, mpc, pipe, buf, jsonErr, yamlErr, perr >>

\* goroutine of Encode: jsonErr = (the result of jsonEnc.Encode)
ProducerAssign ==
    /\ op = "Encode"
    /\ ppc = "result"
    /\ jsonErr' = perr
    /\ ppc' = "close"
    /\ UNCHANGED << op, in, dest, ret, mpc, pipe, buf, errChan, yamlErr, perr >>

\* w.Close() / pipeWriter.Close()
ProducerClose ==
    /\ ppc = "close"
    /\ pipe' = [pipe EXCEPT !.wclosed = TRUE]
    /\ ppc' = "done"
    /\ UNCHANGED << op, in, dest, ret, mpc, buf, errChan, jsonErr, yamlErr, perr >>

\* jsonUnmarshal: the store of a complete value into o
decodeInto(text) ==
    LET j == jsonParse(text)
    IN  IF j.kind = "jnull" THEN Stored(dest, NoError)
        ELSE jsonStore(j, in.t, dest, in.dec.disallow)

\* jsonUnmarshal: one Read by the json.Decoder, which grows its buffer to
\* twice its capacity plus minRead when it is full, and decodes as soon as
\* its scanner has seen the end of the value
MainRead ==
    /\ op \in DecodeOps
    /\ mpc = "jsonUnmarshal"
    /\ pipe.data # << >>
    /\ LET n == IF Len(pipe.data) < Len(buf) + minRead THEN Len(pipe.data)
                ELSE Len(buf) + minRead
           b == buf \o SubSeq(pipe.data, 1, n)
           e == valueEnd(b)
       IN  /\ buf' = b
           /\ pipe' = [pipe EXCEPT !.data = SubSeq(pipe.data, n + 1, Len(pipe.data))]
           /\ IF e > 0
              THEN LET r == decodeInto(SubSeq(b, 1, e))
                   IN  /\ dest' = r.val
                       /\ jsonErr' = IF r.err = NoError THEN NoError
                                     ELSE Wrap("while decoding JSON", r.err)
                       /\ mpc' = "recv"
              ELSE UNCHANGED << dest, jsonErr, mpc >>
    /\ UNCHANGED << op, in, ret, ppc, errChan, yamlErr, perr >>

\* jsonUnmarshal: the Read that finds the pipe closed by the writer
MainReadEOF ==
    /\ op \in DecodeOps
    /\ mpc = "jsonUnmarshal"
    /\ pipe.wclosed
    /\ jsonErr' = Wrap("while decoding JSON",
                       IF buf = << >> THEN EOFError ELSE UnexpectedEOFError)
    /\ mpc' = "recv"
    /\ UNCHANGED << op, in, dest, ret, ppc, pipe, buf, errChan, yamlErr, perr >>

\* yamlErr := <-errChan
MainRecv ==
    /\ op \in DecodeOps
    /\ mpc = "recv"
    /\ errChan # << >>
    /\ yamlErr' = Head(errChan)
    /\ errChan' = Tail(errChan)
    /\ mpc' = "return"
    /\ UNCHANGED << op, in, dest, ret, ppc, pipe, buf, jsonErr, perr >>

\* decodeResult with the two tests in the other order
decodeResult_jsonFirst(yErr, jErr) ==
    IF jErr # NoError THEN Wrap("error unmarshalling JSON", jErr)
    ELSE IF yErr # NoError THEN Wrap("error converting YAML to JSON", yErr)
    ELSE NoError

\* the error Decode returns
decodeResult(yErr, jErr) ==
    IF yErr # NoError THEN Wrap("error converting YAML to JSON", yErr)
    ELSE IF jErr # NoError THEN Wrap("error unmarshalling JSON", jErr)
    ELSE NoError

\* the return of Decode, with the deferred r.Close()
MainReturnDecode ==
    /\ op \in DecodeOps
    /\ mpc = "return"
    /\ ret' = [done |-> TRUE, err |-> decodeResult(yamlErr, jsonErr)]
    /\ pipe' = [pipe EXCEPT !.rclosed = TRUE]
    /\ mpc' = "done"
    /\ UNCHANGED << op, in, dest, ppc, buf, errChan, jsonErr, yamlErr, perr >>

\* yamlDec.Decode(&intermediate): one Read by the YAML reader, which
\* rejects the character U+007F as soon as it has it
MainYamlRead ==
    /\ op = "Encode"
    /\ mpc = "yamlDecode"
    /\ pipe.data # << >>
    /\ LET n == IF Len(pipe.data) < minRead THEN Len(pipe.data) ELSE minRead
           b == buf \o SubSeq(pipe.data, 1, n)
       IN  /\ buf' = b
           /\ pipe' = [pipe EXCEPT !.data = SubSeq(pipe.data, n + 1, Len(pipe.data))]
           /\ IF \E i \in 1..Len(b) : b[i] = "DEL"
              THEN /\ yamlErr' = ControlCharError
                   /\ mpc' = "check"
              ELSE UNCHANGED << yamlErr, mpc >>
    /\ UNCHANGED << op, in, dest, ret, ppc, errChan, jsonErr, perr >>

\* yamlDec.Decode(&intermediate): the Read that finds the pipe closed by
\* the writer, which ends the document
MainYamlEOF ==
    /\ op = "Encode"
    /\ mpc = "yamlDecode"
    /\ pipe.wclosed
    /\ IF buf = << >>
       THEN /\ yamlErr' = EOFError
            /\ dest' = dest
       ELSE /\ yamlErr' = NoError
            /\ dest' = yamlOfJSON(jsonParse(TrimSpace(buf)))
    /\ mpc' = "check"
    /\ UNCHANGED << op, in, ret, ppc, pipe, buf, errChan, jsonErr, perr >>

\* the error Encode returns, given the jsonErr it reads
encodeResult(jErr, yErr, writerFails) ==
    IF jErr # NoError THEN Wrap("error marshalling into JSON", jErr)
    ELSE IF yErr # NoError THEN Wrap("error converting JSON to YAML", yErr)
    ELSE IF writerFails THEN WriterError
    ELSE NoError

\* what the caller's unsynchronized read of jsonErr can give: the value it
\* holds, or the one the goroutine is writing at that moment
readJsonErr == {jsonErr} \cup (IF ppc = "result" THEN {perr} ELSE {})

\* the rest of Encode: the read of the shared jsonErr, yamlEnc.Encode of
\* the intermediate value, and the deferred pipeReader.Close()
MainReturnEncode ==
    /\ op = "Encode"
    /\ mpc = "check"
    /\ \E j \in readJsonErr :
           LET e == encodeResult(j, yamlErr, in.writerFails)
           IN  ret' = [done |-> TRUE, err |-> e,
                       doc |-> IF e = NoError THEN dest ELSE Null,
                       written |-> (j = NoError /\ yamlErr = NoError /\ ~in.writerFails)]
    /\ pipe' = [pipe EXCEPT !.rclosed = TRUE]
    /\ mpc' = "done"
    /\ UNCHANGED << op, in, dest, ppc, buf, errChan, jsonErr, yamlErr, perr >>

\* JSONToYAML(j)
CallJSONToYAML(j) ==
    /\ op = "idle"
    /\ op' = "JSONToYAML"
    /\ in' = [y |-> Null, j |-> j]
    /\ ret' = [done |-> TRUE, bytes |-> JSONToYAML(j).bytes, err |-> JSONToYAML(j).err]
    /\ UNCHANGED << dest, bridgeVars >>

\* YAMLToJSON(y) for a document given as text
CallYAMLToJSONText(text) ==
    /\ op = "idle"
    /\ op' = "YAMLToJSON"
    /\ in' = [y |-> yamlParseText(text).y, text |-> text]
    /\ \E r \in YAMLToJSONText(text) : ret' = [done |-> TRUE, bytes |-> r.bytes, err |-> r.err]
    /\ UNCHANGED << dest, bridgeVars >>

\* jsonToYAMLValue(j) in a build of the given kind
CallJsonToYAMLValue(j, build) ==
    /\ op = "idle"
    /\ op' = "jsonToYAMLValue"
    /\ LET call(a) ==
               /\ in' = [y |-> Null, v |-> j, build |-> build, heap |-> a.h, obj |-> a.r]
               /\ \E c \in jsonToYAMLValueOnHeap(a.h, a.r, build) :
                      ret' = [done |-> TRUE, out |-> heapTree(c.h, c.r),
                              heap |-> c.h, ref |-> c.r]
       IN  call(allocTree(<< >>, j))
    /\ UNCHANGED << dest, bridgeVars >>

\* JSONObjectToYAMLObject(j) for a map j filled key by key in the order
\* inserted, which the map does not keep
CallJSONObjectToYAMLObject(j, inserted, build) ==
    /\ op = "idle"
    /\ op' = "JSONObjectToYAMLObject"
    /\ LET call(a) ==
               /\ in' = [y |-> Null, v |-> j, inserted |-> inserted, build |-> build,
                         heap |-> a.h, obj |-> a.r]
               /\ \E c \in JSONObjectToYAMLObjectOnHeap(a.h, a.r.a, build) :
                      ret' = [done |-> TRUE, out |-> heapTree(c.h, c.r),
                              heap |-> c.h, ref |-> c.r]
       IN  call(allocTree(<< >>, j))
    /\ UNCHANGED << dest, bridgeVars >>

\* runCases: the output of JSONToYAML is converted back by YAMLToJSON;
\* rev is the input of the first conversion
ReverseToJSON ==
    /\ op = "JSONToYAML"
    /\ ret.done
    /\ ret.err = NoError
    /\ "rev" \notin DOMAIN in
    /\ op' = "YAMLToJSON"
    /\ in' = [y |-> yamlParseText(ret.bytes).y, text |-> ret.bytes, rev |-> in.j]
    /\ \E r \in YAMLToJSONText(ret.bytes) :
          ret' = [done |-> TRUE, bytes |-> r.bytes, err |-> r.err]
    /\ UNCHANGED << dest, bridgeVars >>

\* runCases: the output of YAMLToJSON is converted back by JSONToYAML
ReverseToYAML ==
    /\ op = "YAMLToJSON"
    /\ ret.done
    /\ ret.err = NoError
    /\ "text" \in DOMAIN in
    /\ "rev" \notin DOMAIN in
    /\ op' = "JSONToYAML"
    /\ in' = [y |-> Null, j |-> ret.bytes, rev |-> in.text]
    /\ ret' = [done |-> TRUE, bytes |-> JSONToYAML(ret.bytes).bytes,
               err |-> JSONToYAML(ret.bytes).err]
    /\ UNCHANGED << dest, bridgeVars >>

\* the call is over: the caller has its result and the goroutine has ended
Reset ==
    /\ op # "idle"
    /\ IF op \in DecodeOps \cup {"Encode"} THEN mpc = "done" /\ ppc = "done" ELSE ret.done
    /\ op' = "idle"
    /\ in' = [y |-> Null]
    /\ dest' = Null
    /\ ret' = NotReturned
    /\ mpc' = "idle"
    /\ ppc' = "idle"
    /\ pipe' = NewPipe
    /\ buf' = << >>
    /\ errChan' = << >>
    /\ jsonErr' = NoError
    /\ yamlErr' = NoError
    /\ perr' = NoError

Next ==
    \/ \E y \in Docs, t \in Targets : CallConvert(y, t)
    \/ \E y \in Docs : CallYAMLToJSON(y)
    \/ \E y \in Docs : CallYAMLToJSONStrict(y)
    \/ \E c \in DecodeCases : CallUnmarshal(c[1], c[2])
    \/ \E c \in DecodeCases : CallUnmarshalStrict(c[1], c[2])
    \/ \E o \in EncodeValues, w \in BOOLEAN : CallEncode(o, w)
    \/ \E j \in JSONTexts : CallJSONToYAML(j)
    \/ \E text \in CanonicalYAML : CallYAMLToJSONText(text)
    \/ ReverseToJSON
    \/ ReverseToYAML
    \/ \E j \in JSONValues, b \in Builds : CallJsonToYAMLValue(j, b)
    \/ \E j \in JSONObjects, b \in Builds :
          \E ks \in Perms(DOMAIN j.m) : CallJSONObjectToYAMLObject(j, ks, b)
    \/ ProducerYAMLToJSON
    \/ ProducerJSONEncode
    \/ ProducerWriteDone
    \/ ProducerWriteClosed
    \/ ProducerSend
    \/ ProducerAssign
    \/ ProducerClose
    \/ MainRead
    \/ MainReadEOF
    \/ MainRecv
    \/ MainReturnDecode
    \/ MainYamlRead
    \/ MainYamlEOF
    \/ MainReturnEncode
    \/ Reset

Spec == Init /\ [][Next]_vars

(***************************************************************************)
(* The properties.                                                         *)
(***************************************************************************)
sfalse == << "f", "a", "l", "s", "e" >>

\* s is the decimal text of n: digits only, no leading zero, a minus sign
\* for a negative number
RECURSIVE IsDecimalOf(_, _)
IsDecimalOf(s, n) ==
    IF n < 0 THEN Len(s) >= 2 /\ s[1] = "-" /\ IsDecimalOf(Tail(s), -n)
    ELSE /\ Len(s) >= 1
         /\ \A i \in 1..Len(s) : IsDigit(s[i])
         /\ (Len(s) > 1 => s[1] # "0")
         /\ ParseUint(s) = n

\* out is what the scalar v has to become, for a destination that is
\* string-typed or not (a float for a string is left open)
ScalarAsSpecified(v, out, toString) ==
    IF toString /\ v.kind \in {"int", "int64", "uint64"}
    THEN out.kind = "string" /\ IsDecimalOf(out.s, v.i)
    ELSE IF toString /\ v.kind = "bool" THEN out = VStr(IF v.b THEN strue ELSE sfalse)
    ELSE IF toString /\ v.kind = "float64" THEN TRUE
    ELSE out = v

IsScalar(v) == v.kind \notin {"map", "seq"}

\* the jsonTargets whose resolved type is string
StringTargets == {TString, TPtr(TString)}

\* the jsonTargets in which the key "a" has a string-typed destination
AStringTargets == {UnmarshalString, TPtr(UnmarshalString), TMap(TString)}

\* C1: convertToJSONableObject turns a scalar int, int64, uint64 or bool
\* into its decimal text or "true"/"false" when its resolved destination is
\* string-typed, and returns every scalar unchanged when there is no
\* destination, when the destination is not string-typed, or when the
\* scalar is a string or null; for the scalar at the top and for the
\* scalar under the key "a" of a mapping.
C1_ScalarCoercion ==
    (op = "convertToJSONableObject" /\ ret.done) =>
        LET v == yamlDecode(in.y, FALSE).v
        IN  /\ IsScalar(v) =>
                  /\ ~ret.out.err
                  /\ ScalarAsSpecified(v, ret.out.v, in.t \in StringTargets)
            /\ in.y \in DocsA =>
                  /\ ~ret.out.err
                  /\ DOMAIN ret.out.v.m = {sa}
                  /\ ScalarAsSpecified(v.m[VStr(sa)], ret.out.v.m[sa], in.t \in AStringTargets)

\* a uint64 was given for a *string and for the string field A
C1_Witness ==
    /\ op = "convertToJSONableObject"
    /\ ret.done
    /\ \/ in.y = Plain(MaxUint64) /\ in.t = TPtr(TString) /\ ret.out.v.kind = "string"
       \/ /\ in.y = Mapping(<< << VStr(sa), Plain(MaxUint64) >> >>)
          /\ in.t = UnmarshalString
          /\ ret.out.v.m[sa].kind = "string"

\* the key of a one-entry mapping of DocsK, decoded
keyOf(y) == yamlDecode(y.entries[1][1], FALSE).v

\* C2: every string, integer (signed or unsigned 64-bit) or bool key
\* becomes a string, itself, its decimal text, or "true"/"false", whatever
\* the destination type is.
C2_KeyNormalization ==
    (/\ op = "convertToJSONableObject"
     /\ ret.done
     /\ in.y \in DocsK
     /\ keyOf(in.y).kind \in {"string", "int", "int64", "uint64", "bool"}) =>
        LET k == keyOf(in.y)
        IN  /\ ~ret.out.err
            /\ \E s \in DOMAIN ret.out.v.m :
                  /\ DOMAIN ret.out.v.m = {s}
                  /\ CASE k.kind = "string" -> s = k.s
                       [] k.kind = "bool" -> s = (IF k.b THEN strue ELSE sfalse)
                       [] OTHER -> IsDecimalOf(s, k.i)

\* a document has a null key: in a mapping, at any depth
RECURSIVE HasNullKey(_)
HasNullKey(y) ==
    CASE y.kind = "mapping" ->
            \E i \in 1..Len(y.entries) :
                \/ y.entries[i][1] = Null
                \/ HasNullKey(y.entries[i][1])
                \/ HasNullKey(y.entries[i][2])
      [] y.kind = "seq" -> \E i \in 1..Len(y.items) : HasNullKey(y.items[i])
      [] OTHER -> FALSE

\* a decoded value has a null key: in a map, at any depth
RECURSIVE ValueHasNullKey(_)
ValueHasNullKey(v) ==
    CASE v.kind = "map" ->
            \E k \in DOMAIN v.m : k = Null \/ ValueHasNullKey(k) \/ ValueHasNullKey(v.m[k])
      [] v.kind = "seq" -> \E i \in 1..Len(v.items) : ValueHasNullKey(v.items[i])
      [] OTHER -> FALSE

RECURSIVE HasDuplicateKey(_)
HasDuplicateKey(y) ==
    CASE y.kind = "mapping" ->
            \/ \E i, j \in 1..Len(y.entries) : i < j /\ y.entries[i][1] = y.entries[j][1]
            \/ \E i \in 1..Len(y.entries) : HasDuplicateKey(y.entries[i][2])
      [] y.kind = "seq" -> \E i \in 1..Len(y.items) : HasDuplicateKey(y.items[i])
      [] OTHER -> FALSE

\* { a: true, a: false }
DocTrueFalse == Mapping(<< << VStr(sa), VBool(TRUE) >>, << VStr(sa), VBool(FALSE) >> >>)

\* C4: for a document with the same key twice in one mapping, at any
\* depth, YAMLToJSONStrict returns an error and no bytes, and
\* UnmarshalStrict returns an error and never touches the destination.
C4_StrictDuplicate ==
    /\ (op = "YAMLToJSONStrict" /\ ret.done /\ HasDuplicateKey(in.y)) =>
           (ret.err # NoError /\ ret.bytes = << >>)
    /\ (op = "UnmarshalStrict" /\ HasDuplicateKey(in.y)) =>
           (dest = Zero(in.t) /\ (ret.done => ret.err # NoError))

\* UnmarshalStrict of { a: true, a: false } has returned
C4_Witness ==
    /\ op = "UnmarshalStrict"
    /\ ret.done
    /\ in.y = DocTrueFalse
    /\ in.t = UnmarshalString
    /\ ret.err = Wrap("error converting YAML to JSON", DuplicateKeyError)
    /\ dest = Zero(UnmarshalString)

\* the two-entry mappings with one key twice, the key not null
DupDocs2 == {y \in Docs2 : y.entries[1][1] = y.entries[2][1] /\ y.entries[1][1] # Null}

C6_PermissiveDuplicateError ==
    (op \in {"Unmarshal", "YAMLToJSON"} /\ ret.done /\ HasDuplicateKey(in.y)) =>
        ret.err # NoError

\* the keys of the documents that resolve to a field of a struct type
KnownKeys(t) ==
    IF t = UnmarshalString THEN {VStr(sa), VStr(sA), VStr(strue), VBool(TRUE)}
    ELSE IF t = NamedThing THEN {VStr(sname)}
    ELSE {}

\* a call that decodes a two-entry mapping with two different keys, none
\* null, into a struct of string fields has returned
StructDecodeReturned ==
    /\ op \in DecodeOps
    /\ ret.done
    /\ in.y \in Docs2
    /\ in.t \in {UnmarshalString, NamedThing}
    /\ ~HasDuplicateKey(in.y)
    /\ ~HasNullKey(in.y)

HasUnknownKey == \E i \in 1..2 : in.y.entries[i][1] \notin KnownKeys(in.t)

\* the text the value of an entry becomes in a string field
ValText(v) ==
    CASE v.kind = "bool" -> (IF v.b THEN strue ELSE sfalse)
      [] v.kind = "plainint" -> << DigitChars[v.n + 1] >>
      [] OTHER -> v.s

\* the struct with the entry e decoded into its field and nothing else
ExpectedOne(t, e) ==
    IF t = UnmarshalString /\ e[1] \in {VStr(strue), VBool(TRUE)}
    THEN StructOf(<< VStr(<< >>), VStr(ValText(e[2])) >>)
    ELSE StructOf(<< VStr(ValText(e[2])), VStr(<< >>) >>)

\* C7: a key with no field in the destination struct is reported exactly
\* when strict mode was asked for: Unmarshal returns no error,
\* UnmarshalStrict returns an error if and only if there is such a key, and
\* both decode the known key beside an unknown one.
C7_UnknownFieldOnlyStrict ==
    StructDecodeReturned =>
        /\ op = "Unmarshal" => ret.err = NoError
        /\ op = "UnmarshalStrict" => (ret.err # NoError <=> HasUnknownKey)
        /\ \A i \in 1..2 :
              (/\ in.y.entries[i][1] \in KnownKeys(in.t)
               /\ in.y.entries[3 - i][1] \notin KnownKeys(in.t)) =>
                  dest = ExpectedOne(in.t, in.y.entries[i])

\* UnmarshalStrict of { a: true, x: b } has reported x and decoded a
C7_Witness ==
    /\ op = "UnmarshalStrict"
    /\ ret.done
    /\ in.y = Mapping(<< << VStr(sa), VBool(TRUE) >>, << VStr(sx), VStr(sb) >> >>)
    /\ in.t = UnmarshalString
    /\ ret.err = Wrap("error unmarshalling JSON", Wrap("while decoding JSON", UnknownFieldError))
    /\ dest = StructOf(<< VStr(strue), VStr(<< >>) >>)

\* C8: a strict decode whose only problem is an unknown field returns no
\* (fatal) error.
C8_UnknownFieldNotFatal ==
    (StructDecodeReturned /\ op = "UnmarshalStrict" /\ HasUnknownKey) => ret.err = NoError

BridgeOps == DecodeOps \cup {"Encode"}

\* C9: when Encode or Decode has returned, the goroutine it started has
\* no step left.
C9_ReturnAfterBothStages ==
    (op \in BridgeOps /\ ret.done) => ppc = "done"

\* C10: a producer blocked in its Write into the pipe, with a consumer
\* that has stopped reading, is released: the read side is closed or the
\* caller is on its way to close it.
C10_BlockedProducerReleased ==
    (/\ op \in BridgeOps
     /\ ppc = "write"
     /\ pipe.data # << >>
     /\ mpc \notin {"jsonUnmarshal", "yamlDecode"}) =>
        (pipe.rclosed \/ mpc \in {"check", "return"})

\* C11: the step by which Encode or Decode returns, when the goroutine
\* (the producer stage) has failed, returns the producer's error under the
\* producer's prefix: the JSON-marshalling error in Encode, the YAML-to-JSON
\* conversion error in Decode, never the consumer's.
C11_ProducerErrorFirst ==
    [][(op \in BridgeOps /\ ~ret.done /\ ret'.done /\ perr # NoError) =>
           ret'.err = Wrap(IF op = "Encode" THEN "error marshalling into JSON"
                           ELSE "error converting YAML to JSON", perr)]_vars

\* both stages have failed and the call has returned: Encode of NaN, where
\* the YAML decoder found end-of-stream, or a Decode of a mapping with a
\* null key, where the JSON decoder did
C11_Witness ==
    /\ op \in BridgeOps
    /\ ret.done
    /\ \/ /\ op = "Encode"
          /\ in.o = NaN
          /\ yamlErr = EOFError
          /\ ret.err = Wrap("error marshalling into JSON", UnsupportedValueError)
       \/ /\ op = "Unmarshal"
          /\ jsonErr = Wrap("while decoding JSON", EOFError)
          /\ ret.err = Wrap("error converting YAML to JSON", UnsupportedKeyError(Null, VInt(1)))

\* C12: the caller never reads a stage's error variable while the other
\* task may still write it: when Encode is about to read jsonErr, the
\* goroutine is past its assignment to jsonErr (Decode hands the error
\* over through errChan and shares no variable).
C12_NoSharedErrorState ==
    (op = "Encode" /\ mpc = "check") => ppc \in {"close", "done"}

\* the text of the key of a one-entry mapping
keyText(y) == keyString(keyOf(y)).s

\* no field of the struct type t has the external name s
NoFieldNamed(t, s) ==
    \A i \in 1..Len(cachedTypeFields(t)) : cachedTypeFields(t)[i].name # s

\* C13: a key that equals no field name of the destination struct exactly
\* resolves to no field: the value under it is converted with no
\* descriptor, so a scalar is returned as it is.
C13_ExactMatchOnly ==
    (/\ op = "convertToJSONableObject"
     /\ ret.done
     /\ in.y \in DocsA \cup DocsK
     /\ keyString(keyOf(in.y)).ok
     /\ in.t.kind # "none"
     /\ indirect(in.t).kind = "struct"
     /\ NoFieldNamed(indirect(in.t), keyText(in.y))) =>
        ret.out = Converted(VObj(keyText(in.y) :> yamlDecode(in.y.entries[1][2], FALSE).v))

\* the one-entry mappings whose key is the bool true or the string "true"
DocsTrueKey == {y \in DocsK : y.entries[1][1] \in {VBool(TRUE), VStr(strue)}}

\* C14: a strict decode of { true: x } into a struct with the untagged
\* fields A and True reports an unknown field and leaves True unset.
C14_BareNameNotFolded ==
    (op = "UnmarshalStrict" /\ ret.done /\ in.y \in DocsTrueKey /\ in.t = UnmarshalString) =>
        (ret.err # NoError /\ dest.f[2] = VStr(<< >>))

\* the one-entry mappings with a key that matches a field of
\* struct { A string; True string } under case folding only, and a string
\* or integer value
DocsFolded ==
    {y \in DocsK : /\ y.entries[1][1] \in {VStr(sa), VStr(strue), VBool(TRUE)}
                   /\ y.entries[1][2] \in {VStr(sa), Plain(1)}}

Embedded(d) ==
    IF d.f[1].kind # "ptr" THEN d.f[1]
    ELSE IF d.f[1].nil THEN Zero(UnmarshalStruct)
    ELSE d.f[1].elem

\* C16: a scalar under a key that resolves to a string field promoted from
\* an embedded struct is coerced like one under a direct string field:
\* { a: 1, b: a } decoded into a struct that embeds UnmarshalStruct, by
\* value or by pointer, gives a = "1" and b = "a" with no error.
C16_PromotedFieldCoerced ==
    (/\ op \in DecodeOps
     /\ ret.done
     /\ in.y \in DocsEmbed
     /\ in.t \in {UnmarshalEmbedStruct, UnmarshalEmbedStructPointer}) =>
        /\ ret.err = NoError
        /\ Embedded(dest).f[1] = VStr(ValText(in.y.entries[1][2]))
        /\ dest.f[2] = VStr(sa)

\* C17: round trip.  For a JSON text { "t": scalar } or { "1": scalar }
\* with a string, boolean, null or integer scalar, JSONToYAML succeeds and
\* YAMLToJSON of its output is the text again; for a YAML text the emitter
\* writes for { t: scalar }, YAMLToJSON succeeds and JSONToYAML of its output
\* is the text again.
C17_RoundTrip ==
    /\ (op = "JSONToYAML" /\ ret.done /\ "rev" \notin DOMAIN in /\ in.j \in RoundTripJSON) =>
          ret.err = NoError
    /\ (op = "YAMLToJSON" /\ ret.done /\ "rev" \in DOMAIN in /\ in.rev \in RoundTripJSON) =>
          (ret.err = NoError /\ ret.bytes = in.rev)
    /\ (op = "YAMLToJSON" /\ ret.done /\ "text" \in DOMAIN in /\ "rev" \notin DOMAIN in) =>
          ret.err = NoError
    /\ (op = "JSONToYAML" /\ ret.done /\ "rev" \in DOMAIN in) =>
          (ret.err = NoError /\ ret.bytes = in.rev)

\* the key texts of a JSON object text, in the order written
JSONKeyOrder(j) == [i \in 1..Len(jsonParse(j).members) |-> jsonParse(j).members[i][1]]

\* the key texts of a block mapping text, in the order written
YAMLKeyOrder(text) ==
    [i \in 1..Len(yamlParseText(text).y.entries) |-> yamlParseText(text).y.entries[i][1].s]

\* C18: from JSON to YAML the order of the keys is kept: the mapping
\* JSONToYAML writes has its entries in the order of the members of the
\* JSON object, and the MapSlice JSONObjectToYAMLObject returns has its
\* items in the order the keys were put into the map.
C18_InsertionOrderKept ==
    /\ (/\ op = "JSONToYAML"
        /\ ret.done
        /\ ret.err = NoError
        /\ in.j \in OrderedJSON) => YAMLKeyOrder(ret.bytes) = JSONKeyOrder(in.j)
    /\ (op = "JSONObjectToYAMLObject" /\ ret.done) =>
          [i \in 1..Len(ret.out.items) |-> ret.out.items[i][1]] = in.inserted

\* the number a whole float64 or an integer value holds
NumVal(v) == IF v.kind = "float64" THEN truncFloat(v) ELSE v.i

\* the value the downcast rule gives a number
Downcast(j) ==
    IF j.kind = "float64" /\ ~isWhole(j) THEN j
    ELSE LET n == NumVal(j)
         IN  IF n >= MinInt /\ n <= MaxInt THEN VInt(n)
             ELSE IF n >= MinInt64 /\ n <= MaxInt64 THEN VInt64(n)
             ELSE IF j.kind = "float64" /\ n >= 0 /\ n <= MaxUint64 THEN VUint64(n)
             ELSE j

\* C19: jsonToYAMLValue downcasts a number without loss: a float64 becomes
\* an int when that is exact and fits, else an int64 when exact, else a
\* uint64 when exact, else stays as it is; an int64 becomes an int when it
\* fits; the result is numerically equal to the input.
C19_LosslessDowncast ==
    (op = "jsonToYAMLValue" /\ ret.done /\ in.v \in JSONNumbers) =>
        ret.out = Downcast(in.v)

\* C20: an integer too wide for a float64 keeps its value through
\* Unmarshal and UnmarshalStrict: the document WideInt decoded into a string
\* gives its decimal text, and decoded into an interface{} gives the int64
\* WideInt.
C20_WideIntegerExact ==
    (op \in DecodeOps /\ ret.done /\ in.y = Plain(WideInt)) =>
        /\ in.t = TString => (ret.err = NoError /\ dest = VStr(FormatInt(WideInt)))
        /\ in.t = TInterface => (ret.err = NoError /\ dest = VInt64(WideInt))

\* what a decode of the document y into a zero value of type t returns
\* with the Decoder d, when it returns: the error and the destination, for
\* every order of map iteration
DecodeOutcomes(y, t, d) ==
    { IF r.err # NoError
      THEN [err |-> Wrap("error converting YAML to JSON", r.err), dest |-> Zero(t)]
      ELSE LET stored(j) ==
                   IF j.kind = "jnull" THEN Stored(Zero(t), NoError)
                   ELSE jsonStore(j, t, Zero(t), d.disallow)
               result(sv) ==
                   [err |-> decodeResult(NoError,
                                IF sv.err = NoError THEN NoError
                                ELSE Wrap("while decoding JSON", sv.err)),
                    dest |-> sv.val]
           IN  result(stored(jsonParse(SubSeq(r.out, 1, valueEnd(r.out)))))
      : r \in yamlToJSON(TPtr(t), y, d.strict) }

\* every key of the value v, at any depth, has a field in the struct it is
\* destined for (under the case-insensitive match of encoding/json); maps,
\* interfaces and scalars take any key
RECURSIVE AllKeysKnown(_, _)
AllKeysKnown(v, t) ==
    LET u == IF t.kind = "ptr" THEN indirect(t) ELSE t
    IN  CASE v.kind = "map" /\ u.kind = "struct" ->
                \A k \in DOMAIN v.m :
                    keyString(k).ok =>
                        \E i \in 1..Len(cachedTypeFields(u)) :
                            /\ equalFold(cachedTypeFields(u)[i].name, keyString(k).s)
                            /\ AllKeysKnown(v.m[k], cachedTypeFields(u)[i].typ)
          [] v.kind = "map" /\ u.kind = "map" ->
                \A k \in DOMAIN v.m : AllKeysKnown(v.m[k], u.elem)
          [] v.kind = "seq" /\ u.kind \in {"slice", "array"} ->
                \A i \in 1..Len(v.items) : AllKeysKnown(v.items[i], u.elem)
          [] OTHER -> TRUE

\* C21: for a document with no key twice in a mapping and no key without
\* a field in the destination, what Unmarshal returns (the error and the
\* destination) is what UnmarshalStrict can return, and what
\* UnmarshalStrict returns is what Unmarshal can return.
C21_StrictAgreesWithPermissive ==
    (/\ op \in DecodeOps
     /\ ret.done
     /\ ~HasDuplicateKey(in.y)
     /\ AllKeysKnown(yamlDecode(in.y, FALSE).v, in.t)) =>
        [err |-> ret.err, dest |-> dest]
            \in DecodeOutcomes(in.y, in.t,
                               IF op = "Unmarshal" THEN UnmarshalStrictDecoder
                               ELSE UnmarshalDecoder)

\* UnmarshalStrict of { a: 12 } into struct { A string; True string } has
\* returned with A = "12", as Unmarshal does
C21_Witness ==
    /\ op = "UnmarshalStrict"
    /\ ret.done
    /\ in.y = Mapping(<< << VStr(sa), Plain(12) >> >>)
    /\ in.t = UnmarshalString
    /\ ret.err = NoError
    /\ dest = StructOf(<< VStr(<< "1", "2" >>), VStr(<< >>) >>)
    /\ [err |-> NoError, dest |-> dest] \in DecodeOutcomes(in.y, in.t, UnmarshalDecoder)

\* the descriptor for the value under the key s in a mapping destined for
\* the (resolved) type u: the type of the field the key resolves to, at the
\* end of its index path, the element type of a map, or none
entryDescriptor(u, s) ==
    IF u.kind = "struct"
    THEN LET typeOf(fields, f) == IF f # 0 THEN fields[f].typ ELSE NoTarget
             lookup(fields) == typeOf(fields, findField(fields, s))
         IN  lookup(cachedTypeFields(u))
    ELSE IF u.kind = "map" THEN u.elem
    ELSE NoTarget

\* every key of every map of v is a string, an integer, a float or a bool,
\* and no two keys of one map become the same string
RECURSIVE PlainKeys(_)
PlainKeys(v) ==
    CASE v.kind = "map" ->
            /\ \A k \in DOMAIN v.m : keyString(k).ok /\ PlainKeys(v.m[k])
            /\ \A k1, k2 \in DOMAIN v.m : keyString(k1).s = keyString(k2).s => k1 = k2
      [] v.kind = "seq" -> \A i \in 1..Len(v.items) : PlainKeys(v.items[i])
      [] OTHER -> TRUE

\* the conversion of v with every entry's value converted under the
\* descriptor of its key (the elements of a sequence under the descriptor
\* the conversion gives them)
RECURSIVE ConvertedByDescriptor(_, _)
ConvertedByDescriptor(v, t) ==
    LET u == IF t.kind = "ptr" THEN indirect(t) ELSE t
    IN  CASE v.kind = "map" ->
                VObj([s \in {keyString(k).s : k \in DOMAIN v.m} |->
                         ConvertedByDescriptor(
                             v.m[CHOOSE k \in DOMAIN v.m : keyString(k).s = s],
                             entryDescriptor(u, s))])
          [] v.kind = "seq" ->
                VSeq([i \in 1..Len(v.items) |->
                         ConvertedByDescriptor(v.items[i], elemTarget(u))])
          [] OTHER -> coerceScalar(v, u)

\* C22: convertToJSONableObject converts the value of every entry of a
\* mapping, at any depth, with the descriptor of the field its key resolves
\* to in a struct, with the element type in a map, and with none otherwise.
C22_EntryDescriptor ==
    (/\ op = "convertToJSONableObject"
     /\ ret.done
     /\ yamlDecode(in.y, FALSE).v.kind = "map"
     /\ PlainKeys(yamlDecode(in.y, FALSE).v)) =>
        ret.out = Converted(ConvertedByDescriptor(yamlDecode(in.y, FALSE).v, in.t))

\* the descriptor for the elements of a sequence destined for the
\* (resolved) type u: the element type of a slice or an array, or none
elemDescriptor(u) == IF u.kind \in {"slice", "array"} THEN u.elem ELSE NoTarget

\* C23: for a sequence, convertToJSONableObject returns a sequence of the
\* same length whose i-th element is the conversion of the i-th element
\* under the element type of the destination when that is a slice or an
\* array, and under no descriptor otherwise.
C23_ElementDescriptor ==
    (/\ op = "convertToJSONableObject"
     /\ ret.done
     /\ yamlDecode(in.y, FALSE).v.kind = "seq"
     /\ PlainKeys(yamlDecode(in.y, FALSE).v)) =>
        LET items == yamlDecode(in.y, FALSE).v.items
            u == IF in.t.kind = "ptr" THEN indirect(in.t) ELSE in.t
        IN  /\ ~ret.out.err
            /\ ret.out.v.kind = "seq"
            /\ Len(ret.out.v.items) = Len(items)
            /\ \A i \in 1..Len(items) :
                  Converted(ret.out.v.items[i])
                      \in convertToJSONableObject(items[i], elemDescriptor(u))

\* the string the key of the i-th entry of a mapping becomes
entryKeyString(y, i) == keyString(yamlDecode(y.entries[i][1], FALSE).v)

\* the two-entry mappings whose keys differ and become the same string:
\* { 1: a, "1": b }, { true: 1, "true": 2 } and the same in the other order
CollidingDocs2 ==
    { y \in Docs2 : /\ y.entries[1][1] # y.entries[2][1]
                    /\ entryKeyString(y, 1).ok
                    /\ entryKeyString(y, 2).ok
                    /\ entryKeyString(y, 1).s = entryKeyString(y, 2).s }

\* C24: two different keys of one mapping that become the same string make
\* YAMLToJSONStrict fail, and YAMLToJSON return what it returns for the
\* mapping with the last of the two entries alone.
C24_CollidingKeys ==
    /\ (op = "YAMLToJSONStrict" /\ ret.done /\ in.y \in CollidingDocs2) => ret.err # NoError
    /\ (op = "YAMLToJSON" /\ ret.done /\ in.y \in CollidingDocs2) =>
           /\ ret.err = NoError
           /\ [bytes |-> ret.bytes, err |-> ret.err]
                  \in YAMLToJSON(Mapping(<< in.y.entries[2] >>))

\* the goroutine is blocked in its Write into the pipe: bytes are left that
\* nobody has read, and the read side is open
ProducerBlocked == ppc = "write" /\ pipe.data # << >> /\ ~pipe.rclosed

\* the caller is blocked: in a Read from a pipe that is empty and open, or
\* in the receive from errChan with nothing sent
MainBlocked ==
    \/ mpc \in {"jsonUnmarshal", "yamlDecode"} /\ pipe.data = << >> /\ ~pipe.wclosed
    \/ mpc = "recv" /\ errChan = << >>

\* C25: every call of Decode and Encode returns, and its goroutine ends: as
\* long as the call has not returned or the goroutine has not ended, the two
\* tasks are never both unable to take a step (each blocked or ended).
C25_CallsReturn ==
    (op \in BridgeOps /\ (~ret.done \/ ppc # "done")) =>
        ~((ProducerBlocked \/ ppc = "done") /\ (MainBlocked \/ mpc = "done"))

\* the cells a container holds references or scalars in
held(c) ==
    CASE c.kind \in {"map", "object"} -> {c.m[k] : k \in DOMAIN c.m}
      [] c.kind = "seq" -> {c.items[i] : i \in 1..Len(c.items)}
      [] c.kind = "mapslice" -> {c.items[i][2] : i \in 1..Len(c.items)}

RECURSIVE Cells(_, _)
\* the addresses of the containers of the tree at r in the heap h
Cells(h, r) ==
    IF r.kind # "ref" THEN {}
    ELSE {r.a} \cup UNION {Cells(h, x) : x \in held(h[r.a])}

TreeOps == {"convertToJSONableObject", "jsonToYAMLValue", "JSONObjectToYAMLObject"}

\* the call has handed back a value, not an error
HandedBack == op # "convertToJSONableObject" \/ ~ret.out.err

\* C26: convertToJSONableObject and JSONObjectToYAMLObject (with
\* jsonToYAMLValue) write no container of the tree they are given: after a
\* call, failed or not, every cell the caller held is what it was, the
\* tree at the caller's reference is the tree given, and no container of
\* the tree handed back is one of the caller's.
C26_SourceTreeUnmodified ==
    (op \in TreeOps /\ ret.done) =>
        /\ Len(ret.heap) >= Len(in.heap)
        /\ \A a \in 1..Len(in.heap) : ret.heap[a] = in.heap[a]
        /\ heapTree(ret.heap, in.obj) =
              (IF op = "convertToJSONableObject" THEN yamlDecode(in.y, FALSE).v ELSE in.v)
        /\ HandedBack => Cells(ret.heap, ret.ref) \cap (1..Len(in.heap)) = {}

\* convertToJSONableObject has returned for [12, a] and a []string
\* destination: the slice handed back holds "12" and is a new one, the
\* caller's still holds 12
C26_Witness ==
    /\ op = "convertToJSONableObject"
    /\ ret.done
    /\ in.y = VSeq(<< Plain(12), VStr(sa) >>)
    /\ in.t = TSlice(TString)
    /\ ret.out = Converted(VSeq(<< VStr(<< "1", "2" >>), VStr(sa) >>))
    /\ heapTree(ret.heap, in.obj) = VSeq(<< VInt(12), VStr(sa) >>)
    /\ ret.ref # in.obj

\* the text of a float key under the single-precision rule, the infinities
\* and NaN under their YAML names
FloatKeyText(k) ==
    CASE k = PosInf -> << ".", "i", "n", "f" >>
      [] k = NegInf -> << "-", ".", "i", "n", "f" >>
      [] k = NaN -> << ".", "n", "a", "n" >>
      [] OTHER -> FormatFloat(k, 32)

\* C27: a float key of a mapping becomes its single-precision text, with
\* .inf, -.inf and .nan for the infinities and NaN; a float value given for
\* a string-typed destination becomes its double-precision text, at the top
\* and under the key "a" of a mapping.
C27_FloatFormatting ==
    (op = "convertToJSONableObject" /\ ret.done) =>
        /\ (in.y \in DocsK /\ in.y.entries[1][1].kind = "float64") =>
              /\ ~ret.out.err
              /\ DOMAIN ret.out.v.m = {FloatKeyText(in.y.entries[1][1])}
        /\ (in.y.kind = "float64" /\ in.t \in StringTargets) =>
              ret.out = Converted(VStr(FormatFloat(in.y, 64)))
        /\ (in.y \in DocsA /\ in.y.entries[1][2].kind = "float64" /\ in.t \in AStringTargets) =>
              /\ ~ret.out.err
              /\ ret.out.v.m[sa] = VStr(FormatFloat(in.y.entries[1][2], 64))

\* C28: YAMLToJSON is deterministic: whatever a call has returned, the
\* JSON bytes and the error, is what every run on the same document
\* returns, in whatever order the entries of a mapping are visited.
C28_Deterministic ==
    (op = "YAMLToJSON" /\ ret.done /\ "text" \notin DOMAIN in) =>
        \A r \in YAMLToJSON(in.y) : r.bytes = ret.bytes /\ r.err = ret.err

====
